---- MODULE Spec2Model ----
(***************************************************************************)
(* VendasFacil: the sale-creation workflow, the installment (parcela)      *)
(* calendar, the sale total aggregation and the status derivation of       *)
(* receivable / payable accounts, modelled from vendas/models.py,          *)
(* vendas/views.py and vendas/admin.py.                                    *)
(*                                                                         *)
(* Money is an integer number of thousandths (mills) while it is a request *)
(* input and an integer number of cents once it is stored in a             *)
(* DecimalField(decimal_places=2).  A date is a tuple <<year, month, day>>.*)
(***************************************************************************)
EXTENDS Integers, Sequences, FiniteSets, TLC

\* ------------------------------------------------------------------ bounds
MaxAnos == 2          \* calendar years of anchor dates, starting at 2023
MaxMeses == 14        \* installment count explored by the calendar specification
MaxParcelas == 3      \* installment count a sale request may ask for
MaxVendas == 2        \* Sale rows ever created (shells that are rolled back included)
MaxItens == 2         \* rows of one sale form; items the admin form lets a sale reach
MaxDias == 2          \* days the clock advances
MaxContasPagar == 1   \* AccountsPayable rows ever created
MaxClientes == 3      \* Client rows ever created, the two of the initial state included
MaxProdutos == 3      \* Product rows ever created, the two of the initial state included
MaxEstoque == 1       \* units of stock a product is adjusted up to
MaxPedidos == 2       \* requests that save a line item at the same time
MaxAlteracoes == 2    \* rows away from the initial state, in the ownership specification

VARIABLES
    clientes,        \* Client rows:  id -> [usuario, nome, ativo]
    produtos,        \* Product rows: id -> [usuario, nome, preco, estoque, ativo]
    vendas,          \* Sale rows:    id -> [usuario, cliente, data_vencimento, valor_total]
    itens,           \* SaleItem rows: id -> [venda, produto, quantidade, preco_unitario, subtotal]
    contas_receber,  \* AccountsReceivable rows: id -> [usuario, venda, cliente, valor, ...]
    contas_pagar,    \* AccountsPayable rows: id -> [usuario, valor, data_vencimento, ...]
    seq,             \* the AUTOINCREMENT counter of each table
    hoje,            \* timezone.now().date()
    last,            \* the last request handled: its inputs, its outcome, the rows it saved
    anchor,          \* calendar specification: the anchor due date
    pN,              \* calendar specification: the installment count
    datas,           \* calendar specification: the due dates computed so far
    em_curso         \* SaleItem.save calls in progress: request -> [pc, venda, item, vistos, total]

vars == <<clientes, produtos, vendas, itens, contas_receber, contas_pagar,
          seq, hoje, last, anchor, pN, datas, em_curso>>

dbvars == <<clientes, produtos, vendas, itens, contas_receber, contas_pagar, seq>>

\* ------------------------------------------------------------------ dates
\* a null DateField
None == <<>>

ano(d) == d[1]
mes(d) == d[2]
dia(d) == d[3]

\* calendar.isleap
isleap(y) == y % 4 = 0 /\ (y % 100 # 0 \/ y % 400 = 0)

\* calendar.monthrange(y, m)[1]
monthrange(y, m) ==
    IF m = 2 THEN (IF isleap(y) THEN 29 ELSE 28)
    ELSE IF m \in {4, 6, 9, 11} THEN 30 ELSE 31

\* datetime.MAXYEAR, the last year a datetime.date has
MAXYEAR == 9999

\* a datetime.date exists for <<y, m, d>>
DataValida(d) ==
    /\ Len(d) = 3
    /\ ano(d) \in 1..MAXYEAR
    /\ mes(d) \in 1..12
    /\ dia(d) \in 1..monthrange(ano(d), mes(d))

\* date.__lt__
DataLT(a, b) ==
    \/ ano(a) < ano(b)
    \/ ano(a) = ano(b) /\ mes(a) < mes(b)
    \/ ano(a) = ano(b) /\ mes(a) = mes(b) /\ dia(a) < dia(b)

\* the day after d (the clock)
DiaSeguinte(d) ==
    IF dia(d) < monthrange(ano(d), mes(d)) THEN <<ano(d), mes(d), dia(d) + 1>>
    ELSE IF mes(d) < 12 THEN <<ano(d), mes(d) + 1, 1>>
    ELSE <<ano(d) + 1, 1, 1>>

\* date.replace(year=y, month=m, day=d): a date, or ValueError when the
\* month has no such day or the year is past MAXYEAR
ValueErrorData == <<>>

DateReplace(y, m, d) ==
    IF y <= MAXYEAR /\ d \in 1..monthrange(y, m) THEN <<y, m, d>> ELSE ValueErrorData

\* ------------------------------------------------- installment due dates
\* a variant that takes one turn of the loop at most
WhileMesMaiorQue12Mutante(mv, av) ==
    IF mv > 12 THEN <<mv - 12, av + 1>> ELSE <<mv, av>>

\* views.py 1070-1072: while mes_vencimento > 12: mes -= 12; ano += 1
RECURSIVE WhileMesMaiorQue12(_, _)
WhileMesMaiorQue12(mv, av) ==
    IF mv > 12 THEN WhileMesMaiorQue12(mv - 12, av + 1) ELSE <<mv, av>>

\* views.py 1066-1072: the month and year of installment i
MesAnoParcela(data_vencimento_obj, i) ==
    WhileMesMaiorQue12(mes(data_vencimento_obj) + i, ano(data_vencimento_obj))

\* a variant that takes day 28 for the last day of every month
UltimoDiaMutante(data_vencimento_obj, mv, av) == <<av, mv, 28>>

\* views.py 1080-1089: the except ValueError branch; a ValueError raised in
\* it is not caught there
UltimoDia(data_vencimento_obj, mv, av) ==
    DateReplace(av, mv, monthrange(av, mv))

\* views.py 1063-1089: data_parcela of installment i (0-based), or the
\* ValueError that leaves the loop
DataParcela(data_vencimento_obj, i) ==
    LET ma == MesAnoParcela(data_vencimento_obj, i)
        mv == ma[1]
        av == ma[2]
        tentativa == DateReplace(av, mv, dia(data_vencimento_obj))
    IN  IF tentativa # ValueErrorData THEN tentativa
        ELSE UltimoDia(data_vencimento_obj, mv, av)

\* ------------------------------------------------------------------ money
\* DecimalField(decimal_places=2) storage of a value given in mills:
\* quantize to cents, ties to the even cent (decimal's ROUND_HALF_EVEN)
Quantize2(mills) ==
    LET q == mills \div 10
        r == mills % 10
    IN  IF r < 5 THEN q
        ELSE IF r > 5 THEN q + 1
        ELSE IF q % 2 = 0 THEN q ELSE q + 1

\* a variant that drops the remainder of the division
ValorParcelaMutante(valor_total, parcelas) == valor_total \div parcelas

\* views.py 1061: valor_parcela = venda.valor_total / parcelas, as stored in
\* AccountsReceivable.valor (cents, ties to the even cent)
ValorParcela(valor_total, parcelas) ==
    LET q == valor_total \div parcelas
        r == valor_total % parcelas
    IN  IF 2 * r < parcelas THEN q
        ELSE IF 2 * r > parcelas THEN q + 1
        ELSE IF q % 2 = 0 THEN q ELSE q + 1

\* ------------------------------------------------------- request parsing
Erro == [erro |-> TRUE, valor |-> 0]
Ok(v) == [erro |-> FALSE, valor |-> v]

\* int(s): the texts the requests use, and their values
IntTabela ==
    ("-1" :> (0 - 1)) @@ ("0" :> 0) @@ ("1" :> 1) @@ ("2" :> 2) @@ ("3" :> 3)
    @@ ("4" :> 4) @@ ("9" :> 9)

int_(s) == IF s \in DOMAIN IntTabela THEN Ok(IntTabela[s]) ELSE Erro

\* float(s.replace(',', '.')), in mills
FloatTabela ==
    ("-1" :> (0 - 1000)) @@ ("0" :> 0) @@ ("5.00" :> 5000) @@ ("10,00" :> 10000)
    @@ ("0,05" :> 50) @@ ("0.125" :> 125) @@ ("3.33" :> 3330)

float_(s) == IF s \in DOMAIN FloatTabela THEN Ok(FloatTabela[s]) ELSE Erro

\* timezone.datetime.strptime(s, '%Y-%m-%d').date(); the text of a date is
\* modelled by its <<year, month, day>>, the empty text by <<>>
strptime(s) == IF DataValida(s) THEN s ELSE ValueErrorData

Min(a, b) == IF a < b THEN a ELSE b

\* zip(produtos_ids, quantidades, precos)
Zip(ps, qs, cs) ==
    [i \in 1..Min(Len(ps), Min(Len(qs), Len(cs))) |-> <<ps[i], qs[i], cs[i]>>]

\* ------------------------------------------------------------- ORM helpers
Sem(f, ks) == [k \in DOMAIN f \ ks |-> f[k]]

Usuarios == {"u1", "u2"}

\* a variant that does not filter by usuario
GetMutante(tabela, texto, u) ==
    LET n == int_(texto)
    IN  IF n.erro THEN "ValueError"
        ELSE IF n.valor \in DOMAIN tabela THEN "ok"
        ELSE "DoesNotExist"

\* Model.objects.get(id=texto, usuario=u): a row ("ok"), DoesNotExist, or
\* ValueError (a text that is no number)
Get(tabela, texto, u) ==
    LET n == int_(texto)
    IN  IF n.erro THEN "ValueError"
        ELSE IF n.valor \in DOMAIN tabela /\ tabela[n.valor].usuario = u THEN "ok"
        ELSE "DoesNotExist"

RECURSIVE SomaSubtotais(_, _)
SomaSubtotais(its, ids) ==
    IF ids = {} THEN 0
    ELSE LET k == CHOOSE x \in ids : TRUE
         IN  its[k].subtotal + SomaSubtotais(its, ids \ {k})

ItensDaVenda(its, v) == {k \in DOMAIN its : its[k].venda = v}

\* a variant that leaves the rows of a deleted sale where they are
CascadeMutante(tabela, vs) == tabela

\* models.py 308-313 and 384-389, on_delete=CASCADE: the rows of a table that
\* refer to one of the sales vs go when those sales are deleted
Cascade(tabela, vs) == Sem(tabela, {k \in DOMAIN tabela : tabela[k].venda \in vs})

\* models.py 283-290, Sale.calcular_valor_total
calcular_valor_total(vs, its, v) ==
    [vs EXCEPT ![v].valor_total = SomaSubtotais(its, ItensDaVenda(its, v))]

\* models.py 343-350, SaleItem.save: the subtotal, the row, the sale's total.
\* preco is the in-memory unit price in mills
SaleItem_save(vs, its, id, v, produto, quantidade, preco) ==
    LET linha == [venda |-> v, produto |-> produto, quantidade |-> quantidade,
                  preco_unitario |-> Quantize2(preco),
                  subtotal |-> Quantize2(quantidade * preco)]
        its2 == (id :> linha) @@ Sem(its, {id})
    IN  [vendas |-> calcular_valor_total(vs, its2, v), itens |-> its2]

\* ------------------------------------------------------------ initial state
\* Two registered users, each with one client and one product of their own
\* (client 1 and product 1 of u1, client 2 and product 2 of u2); no sale and
\* no account yet.
DataInicial == <<2024, 1, 30>>

\* last: op, usuario and resultado of the last request; of a sale request,
\* the fields of the form (cliente_id, data_vencimento, parcelas, produtos_ids
\* and tuplas, the rows zipped from its three lists) and venda, the id of the sale it
\* created; pk, the row a request was made for; salvos, the accounts a request
\* called save() on; data_pagamento, the date field of a mark-paid request;
\* status, the status filter of a list request; operacao and quantidade, the
\* fields of a stock adjustment
LastVazio ==
    [op |-> "", usuario |-> "", resultado |-> "", venda |-> 0, cliente_id |-> "",
     data_vencimento |-> <<>>, parcelas |-> "", tuplas |-> <<>>,
     salvos |-> {}, pk |-> 0, data_pagamento |-> <<>>, status |-> "",
     produtos_ids |-> <<>>, operacao |-> "", quantidade |-> ""]

ClientesIniciais ==
    (1 :> [usuario |-> "u1", nome |-> "ana", ativo |-> TRUE])
    @@ (2 :> [usuario |-> "u2", nome |-> "ana", ativo |-> TRUE])

ProdutosIniciais ==
    (1 :> [usuario |-> "u1", nome |-> "lapis", preco |-> 500, estoque |-> 1, ativo |-> TRUE])
    @@ (2 :> [usuario |-> "u2", nome |-> "lapis", preco |-> 500, estoque |-> 1,
              ativo |-> TRUE])

Init ==
    /\ clientes = ClientesIniciais
    /\ produtos = ProdutosIniciais
    /\ vendas = <<>>
    /\ itens = <<>>
    /\ contas_receber = <<>>
    /\ contas_pagar = <<>>
    /\ seq = [cliente |-> 3, produto |-> 3, venda |-> 1, item |-> 1, receber |-> 1,
              pagar |-> 1]
    /\ hoje = DataInicial
    /\ last = LastVazio
    /\ anchor = None
    /\ pN = 0
    /\ datas = <<>>
    /\ em_curso = <<>>

\* ------------------------------------------------------------ venda_create
\* a variant that lets the quantity 0 through
QuantidadeRejeitadaMutante(quantidade) == quantidade < 0

\* views.py 1040-1041
QuantidadeRejeitada(quantidade) == quantidade <= 0

\* views.py 1043-1044
PrecoRejeitado(preco) == preco < 0

\* a variant that skips a row that asks for more than the product's stock
TuplaCriaItemComEstoque(u, t) ==
    /\ ~(t[1] = "" \/ t[2] = "" \/ t[3] = "")
    /\ Get(produtos, t[1], u) = "ok"
    /\ ~int_(t[2]).erro
    /\ ~float_(t[3]).erro
    /\ ~QuantidadeRejeitada(int_(t[2]).valor)
    /\ ~PrecoRejeitado(float_(t[3]).valor)
    /\ int_(t[2]).valor <= produtos[int_(t[1]).valor].estoque

\* views.py 1032-1055: the row passes every check of the loop body and
\* reaches SaleItem.objects.create
TuplaCriaItem(u, t) ==
    /\ ~(t[1] = "" \/ t[2] = "" \/ t[3] = "")
    /\ Get(produtos, t[1], u) = "ok"
    /\ ~int_(t[2]).erro
    /\ ~float_(t[3]).erro
    /\ ~QuantidadeRejeitada(int_(t[2]).valor)
    /\ ~PrecoRejeitado(float_(t[3]).valor)

\* views.py 1031-1055: for produto_id, quantidade, preco in zip(...);
\* e = [vendas, itens, item] carries the rows and the SaleItem counter
RECURSIVE ProcessaTuplas(_, _, _, _)
ProcessaTuplas(u, v, tuplas, e) ==
    IF tuplas = <<>> THEN e
    ELSE LET t == Head(tuplas)
             s == SaleItem_save(e.vendas, e.itens, e.item, v, int_(t[1]).valor,
                                int_(t[2]).valor, float_(t[3]).valor)
         IN  ProcessaTuplas(u, v, Tail(tuplas),
                 IF TuplaCriaItem(u, t)
                 THEN [vendas |-> s.vendas, itens |-> s.itens, item |-> e.item + 1]
                 ELSE e)

\* a variant that refuses a count below 1
NumParcelasMutante(parcelas) ==
    IF parcelas = "" THEN Ok(1)
    ELSE IF int_(parcelas).erro \/ int_(parcelas).valor < 1 THEN Erro
    ELSE int_(parcelas)

\* views.py 1005-1008: parcelas = int(parcelas) if parcelas else 1; < 1 is 1
NumParcelas(parcelas) ==
    IF parcelas = "" THEN Ok(1)
    ELSE IF int_(parcelas).erro THEN Erro
    ELSE IF int_(parcelas).valor < 1 THEN Ok(1)
    ELSE int_(parcelas)

\* a variant that leaves installment 0 out
RangeParcelasMutante(parcelas) == 1..(parcelas - 1)

\* views.py 1063: for i in range(parcelas)
RangeParcelas(parcelas) == 0..(parcelas - 1)

\* a variant that gives the new account the status of its due date
NovaContaReceberMutante(u, v, cliente, valor_parcela, data_vencimento_obj, i, parcelas) ==
    [usuario |-> u, venda |-> v, cliente |-> cliente, valor |-> valor_parcela,
     data_vencimento |-> DataParcela(data_vencimento_obj, i),
     data_pagamento |-> None,
     status |-> IF DataLT(DataParcela(data_vencimento_obj, i), hoje)
                THEN "vencido" ELSE "pendente",
     observacoes |-> IF parcelas > 1 THEN <<i + 1, parcelas>> ELSE <<>>]

\* views.py 1092-1099: AccountsReceivable.objects.create for installment i;
\* models.py 409-414: status has the default 'pendente'
NovaContaReceber(u, v, cliente, valor_parcela, data_vencimento_obj, i, parcelas) ==
    [usuario |-> u, venda |-> v, cliente |-> cliente, valor |-> valor_parcela,
     data_vencimento |-> DataParcela(data_vencimento_obj, i),
     data_pagamento |-> None, status |-> "pendente",
     observacoes |-> IF parcelas > 1 THEN <<i + 1, parcelas>> ELSE <<>>]

\* views.py 1063-1105: the installments the loop reaches, which are those
\* before the first whose date raises ValueError; the exception ends the loop
\* in the except Exception of the view
ParcelasCriadas(data_vencimento_obj, parcelas) ==
    {i \in RangeParcelas(parcelas) :
        \A j \in RangeParcelas(parcelas) :
            j <= i => DataParcela(data_vencimento_obj, j) # ValueErrorData}

\* views.py 1060-1099: one receivable per installment, ids in creation order
CriaContasReceber(u, v, cliente, valor_total, data_vencimento_obj, parcelas, crs, prox) ==
    LET is == ParcelasCriadas(data_vencimento_obj, parcelas)
        primeiro == IF is = {} THEN 0 ELSE CHOOSE i \in is : \A j \in is : i <= j
    IN  [k \in {prox + (i - primeiro) : i \in is} |->
            NovaContaReceber(u, v, cliente, ValorParcela(valor_total, parcelas),
                             data_vencimento_obj, (k - prox) + primeiro, parcelas)]
        @@ crs

\* a variant that keeps the row
Sale_deleteMutante(vs, pk) == vs

\* views.py 1025: venda.delete(), of a sale with no item and no receivable
Sale_delete(vs, pk) == Sem(vs, {pk})

\* the request ends with the outcome resultado
Responde(pedido, resultado) ==
    /\ last' = [pedido EXCEPT !.resultado = resultado]
    /\ UNCHANGED <<clientes, produtos, contas_pagar, hoje, anchor, pN, datas, em_curso>>

\* views.py 959-1113, POST
venda_create(u, cliente_id, data_vencimento, parcelas, produtos_ids, quantidades, precos) ==
    LET tuplas == Zip(produtos_ids, quantidades, precos)
        v == seq.venda
        n == NumParcelas(parcelas)
        cliente == int_(cliente_id).valor
        venda == [usuario |-> u, cliente |-> cliente,
                  data_vencimento |-> strptime(data_vencimento), valor_total |-> 0]
        e == ProcessaTuplas(u, v, tuplas,
                 [vendas |-> (v :> venda) @@ vendas, itens |-> itens, item |-> seq.item])
        vs == calcular_valor_total(e.vendas, e.itens, v)
        crs == CriaContasReceber(u, v, cliente, vs[v].valor_total,
                                 strptime(data_vencimento), n.valor,
                                 contas_receber, seq.receber)
        pedido == [LastVazio EXCEPT !.op = "venda_create", !.usuario = u,
                                    !.cliente_id = cliente_id,
                                    !.data_vencimento = data_vencimento,
                                    !.parcelas = parcelas, !.tuplas = tuplas,
                                    !.produtos_ids = produtos_ids]
        R(resultado) == Responde(pedido, resultado)
    IN  /\ seq.venda <= MaxVendas
        /\ IF cliente_id = "" THEN
               R("cliente_obrigatorio") /\ UNCHANGED <<vendas, itens, contas_receber, seq>>
           ELSE IF data_vencimento = <<>> THEN
               R("data_obrigatoria") /\ UNCHANGED <<vendas, itens, contas_receber, seq>>
           ELSE IF Get(clientes, cliente_id, u) = "ValueError" THEN
               R("erro_500") /\ UNCHANGED <<vendas, itens, contas_receber, seq>>
           ELSE IF Get(clientes, cliente_id, u) = "DoesNotExist" THEN
               R("cliente_nao_encontrado")
               /\ UNCHANGED <<vendas, itens, contas_receber, seq>>
           ELSE IF strptime(data_vencimento) = ValueErrorData \/ n.erro THEN
               R("erro") /\ UNCHANGED <<vendas, itens, contas_receber, seq>>
           ELSE IF produtos_ids = <<>> THEN
               \* the shell is created and deleted again: its id is spent
               /\ R("sem_produtos")
               /\ vendas' = Sale_delete((v :> venda) @@ vendas, v)
               /\ seq' = [seq EXCEPT !.venda = v + 1]
               /\ UNCHANGED <<itens, contas_receber>>
           ELSE
               /\ vendas' = vs
               /\ itens' = e.itens
               /\ contas_receber' = crs
               /\ seq' = [seq EXCEPT !.venda = v + 1, !.item = e.item,
                                     !.receber = seq.receber + Cardinality(DOMAIN crs)
                                                 - Cardinality(DOMAIN contas_receber)]
               \* a ValueError in the installment loop is reported by the
               \* except Exception of 1104-1105; nothing is undone
               /\ Responde([pedido EXCEPT !.venda = v],
                           IF ParcelasCriadas(strptime(data_vencimento), n.valor)
                              = RangeParcelas(n.valor)
                           THEN "ok" ELSE "erro")

\* --------------------------------------------------------------- venda_delete
\* views.py 1155-1185, POST; models.py 308-313 and 384-389: on_delete=CASCADE
venda_delete(u, pk) ==
    IF pk \in DOMAIN vendas /\ vendas[pk].usuario = u THEN
        /\ vendas' = Sem(vendas, {pk})
        /\ itens' = Cascade(itens, {pk})
        /\ contas_receber' = Cascade(contas_receber, {pk})
        /\ last' = [LastVazio EXCEPT !.op = "venda_delete", !.usuario = u,
                                     !.resultado = "ok", !.pk = pk]
        /\ UNCHANGED <<clientes, produtos, contas_pagar, seq, hoje, anchor, pN, datas, em_curso>>
    ELSE
        /\ last' = [LastVazio EXCEPT !.op = "venda_delete", !.usuario = u,
                                     !.resultado = "venda_nao_encontrada", !.pk = pk]
        /\ UNCHANGED <<dbvars, hoje, anchor, pN, datas, em_curso>>

\* ------------------------------------------------------------------ inputs
Texto(n) == CHOOSE s \in DOMAIN IntTabela : IntTabela[s] = n

ClienteTokens == {"", "1", "2", "9", "x"}
DataVenda == <<2024, 1, 31>>
DataTokens == {<<>>, DataVenda, <<2024, 2, 30>>, <<MAXYEAR, 12, 31>>}
ParcelasTokens == {"", "0", "-1", "x"} \cup {Texto(n) : n \in 1..MaxParcelas}
Lista(ps, qs, cs) == [produtos_ids |-> ps, quantidades |-> qs, precos |-> cs]

\* the forms of the workflow specification, for the product text pt
ListasDe(pt) ==
    { Lista(<<pt, pt>>, <<"2", "1">>, <<"10,00", "5.00">>),
      Lista(<<pt>>, <<"1">>, <<"10,00">>),
      Lista(<<pt>>, <<"1">>, <<"0,05">>),
      Lista(<<pt>>, <<"0">>, <<"5.00">>),
      Lista(<<pt>>, <<>>, <<>>) }

SemLinhas == Lista(<<>>, <<>>, <<>>)

ListasSpec == {l \in {SemLinhas} \cup ListasDe("1") \cup ListasDe("2") :
                  Len(l.produtos_ids) <= MaxItens}

ClienteProprio(u) == Texto(CHOOSE c \in DOMAIN clientes : clientes[c].usuario = u)

ProdutoProprio(u) == Texto(CHOOSE p \in DOMAIN produtos : produtos[p].usuario = u)

ProdutoAlheio(u) == Texto(CHOOSE p \in DOMAIN produtos : produtos[p].usuario # u)

\* the header of the form varies: the client field with and without a due
\* date, and the due date and installment fields under the user's own client
PedidosCabecalho(u) ==
    [cliente_id : ClienteTokens, data : {<<>>, DataVenda}, parcelas : {"1"},
     lista : {Lista(<<ProdutoProprio(u)>>, <<"1">>, <<"10,00">>)}]
    \cup
    [cliente_id : {ClienteProprio(u)}, data : DataTokens, parcelas : ParcelasTokens,
     lista : {Lista(<<ProdutoProprio(u)>>, <<"1">>, <<"10,00">>)}]

\* the rows of the form vary, under a header that names the user's own client
PedidosLinhas(u) ==
    [cliente_id : {ClienteProprio(u)}, data : {DataVenda},
     parcelas : {Texto(n) : n \in 1..MaxParcelas}, lista : ListasSpec]

VendaCreate ==
    \E u \in Usuarios : \E r \in PedidosCabecalho(u) \cup PedidosLinhas(u) :
        venda_create(u, r.cliente_id, r.data, r.parcelas, r.lista.produtos_ids,
                     r.lista.quantidades, r.lista.precos)

VendaDelete ==
    \E u \in Usuarios : \E pk \in 1..MaxVendas : venda_delete(u, pk)

Next == VendaCreate \/ VendaDelete

Spec == Init /\ [][Next]_vars

\* ------------------------------------------------ the line-item specification
\* The rows of the sale form vary, one row for each reason the loop of
\* views.py 1031-1055 has to skip or to keep a row; the header is a valid one
\* (the user's own client, one installment).
TuplasItens(u) ==
    LET p == ProdutoProprio(u)
    IN  { <<p, "1", "5.00">>, <<ProdutoAlheio(u), "1", "5.00">>, <<"9", "1", "5.00">>,
          <<"", "1", "5.00">>, <<"x", "1", "5.00">>,
          <<p, "0", "5.00">>, <<p, "-1", "5.00">>, <<p, "x", "5.00">>, <<p, "", "5.00">>,
          <<p, "1", "-1">>, <<p, "1", "0">>, <<p, "1", "abc">>, <<p, "1", "">>,
          <<p, "2", "0.125">> }

RECURSIVE Sequencias(_, _)
Sequencias(S, n) ==
    IF n = 0 THEN {<<>>}
    ELSE LET menores == Sequencias(S, n - 1)
         IN  menores \cup {Append(q, x) : q \in {m \in menores : Len(m) = n - 1}, x \in S}

ListasItens(u) ==
    {Lista([i \in DOMAIN ts |-> ts[i][1]], [i \in DOMAIN ts |-> ts[i][2]],
           [i \in DOMAIN ts |-> ts[i][3]]) : ts \in Sequencias(TuplasItens(u), MaxItens)}

ItensVendaCreate ==
    \E u \in Usuarios : \E l \in ListasItens(u) :
        venda_create(u, ClienteProprio(u), DataVenda, "1", l.produtos_ids,
                     l.quantidades, l.precos)

NextItens == ItensVendaCreate \/ VendaDelete

SpecItens == Init /\ [][NextItens]_vars

\* ------------------------------------------------- the admin's sale form
\* admin.py 90-97 and 103-112: SaleAdmin edits a sale together with its
\* SaleItemInline rows; valor_total and subtotal are read-only.  The formset
\* goes through the existing rows in id order: a row marked DELETE is deleted
\* (Model.delete, which SaleItem does not override), a row whose fields
\* changed is saved (SaleItem.save); then the extra row, if filled in, is saved.
\* A row of the form is [apagar, quantidade, preco]; preco is in mills.
LinhaAdmin(apagar, quantidade, preco) ==
    [apagar |-> apagar, quantidade |-> quantidade, preco |-> preco]

RECURSIVE SalvaExistentes(_, _, _, _)
SalvaExistentes(v, ids, form, e) ==
    IF ids = {} THEN e
    ELSE LET k == CHOOSE i \in ids : \A j \in ids : i <= j
             linha == form[k]
             mudou == \/ linha.quantidade # e.itens[k].quantidade
                      \/ Quantize2(linha.preco) # e.itens[k].preco_unitario
         IN  SalvaExistentes(v, ids \ {k}, form,
                 IF linha.apagar THEN [vendas |-> e.vendas, itens |-> Sem(e.itens, {k})]
                 ELSE IF mudou THEN SaleItem_save(e.vendas, e.itens, k, v,
                                                  e.itens[k].produto, linha.quantidade,
                                                  linha.preco)
                 ELSE e)

\* the change view of SaleAdmin, POST; extra is <<>> or <<the new row>>
admin_sale_change(pk, form, extra) ==
    LET e == SalvaExistentes(pk, ItensDaVenda(itens, pk), form,
                             [vendas |-> vendas, itens |-> itens])
        novo == extra # <<>> /\ ~extra[1].apagar
        f == IF novo
             THEN SaleItem_save(e.vendas, e.itens, seq.item, pk, extra[1].produto,
                                extra[1].quantidade, extra[1].preco)
             ELSE e
    IN  /\ pk \in DOMAIN vendas
        /\ DOMAIN form = ItensDaVenda(itens, pk)
        /\ novo => seq.item <= MaxItens * MaxVendas
        /\ novo => Cardinality(ItensDaVenda(e.itens, pk)) < MaxItens
        /\ vendas' = f.vendas
        /\ itens' = f.itens
        /\ seq' = [seq EXCEPT !.item = IF novo THEN seq.item + 1 ELSE seq.item]
        /\ last' = [LastVazio EXCEPT !.op = "admin_sale_change", !.resultado = "ok",
                                     !.pk = pk]
        /\ UNCHANGED <<clientes, produtos, contas_receber, contas_pagar, hoje,
                       anchor, pN, datas, em_curso>>

\* the rows an admin form may hold for item k: as it is, marked DELETE, with
\* the quantity 3, or with the unit price 7.50
LinhasAdmin(k) ==
    { LinhaAdmin(FALSE, itens[k].quantidade, 10 * itens[k].preco_unitario),
      LinhaAdmin(TRUE, itens[k].quantidade, 10 * itens[k].preco_unitario),
      LinhaAdmin(FALSE, 3, 10 * itens[k].preco_unitario),
      LinhaAdmin(FALSE, itens[k].quantidade, 7500) }

FormsAdmin(pk) ==
    {form \in [ItensDaVenda(itens, pk) -> UNION {LinhasAdmin(k) : k \in ItensDaVenda(itens, pk)}] :
        \A k \in DOMAIN form : form[k] \in LinhasAdmin(k)}

ExtrasAdmin(pk) ==
    {<<>>} \cup {<<[apagar |-> FALSE, produto |-> p, quantidade |-> 1, preco |-> 5000]>> :
                   p \in {q \in DOMAIN produtos : produtos[q].usuario = vendas[pk].usuario}}

AdminSaleChange ==
    \E pk \in DOMAIN vendas : \E form \in FormsAdmin(pk) : \E extra \in ExtrasAdmin(pk) :
        admin_sale_change(pk, form, extra)

AdminVendaCreate ==
    /\ vendas = <<>>
    /\ \E u \in Usuarios :
        \E l \in {Lista(<<ProdutoProprio(u)>>, <<"1">>, <<"5.00">>),
                  Lista(<<ProdutoProprio(u), ProdutoProprio(u)>>, <<"2", "1">>,
                        <<"10,00", "5.00">>)} :
            venda_create(u, ClienteProprio(u), DataVenda, "1", l.produtos_ids,
                         l.quantidades, l.precos)

NextAdmin == AdminVendaCreate \/ AdminSaleChange \/ VendaDelete

SpecAdmin == Init /\ [][NextAdmin]_vars

\* ------------------------------------------------------- account status
\* a variant that counts an account due today as overdue
VencidaMutante(data_vencimento, h) == ~DataLT(h, data_vencimento)

\* models.py 438 / 521: self.data_vencimento < hoje
Vencida(data_vencimento, h) == DataLT(data_vencimento, h)

\* a variant without the early return for 'pago'
AccountsReceivable_atualizar_statusMutante(conta, h) ==
    [conta |-> [conta EXCEPT !.status = IF Vencida(conta.data_vencimento, h)
                                        THEN "vencido" ELSE "pendente"],
     salvou |-> TRUE]

\* models.py 430-442, AccountsReceivable.atualizar_status: the record
\* afterwards, and whether save() was called
AccountsReceivable_atualizar_status(conta, h) ==
    IF conta.status = "pago" THEN [conta |-> conta, salvou |-> FALSE]
    ELSE [conta |-> [conta EXCEPT !.status = IF Vencida(conta.data_vencimento, h)
                                             THEN "vencido" ELSE "pendente"],
          salvou |-> TRUE]

\* a variant that flips the status of an overdue account at each call
AccountsPayable_atualizar_statusMutante(conta, h) ==
    IF conta.status = "pago" THEN [conta |-> conta, salvou |-> FALSE]
    ELSE [conta |-> [conta EXCEPT !.status =
                         IF Vencida(conta.data_vencimento, h) /\ conta.status = "pendente"
                         THEN "vencido" ELSE "pendente"],
          salvou |-> TRUE]

\* models.py 513-525, AccountsPayable.atualizar_status
AccountsPayable_atualizar_status(conta, h) ==
    IF conta.status = "pago" THEN [conta |-> conta, salvou |-> FALSE]
    ELSE [conta |-> [conta EXCEPT !.status = IF Vencida(conta.data_vencimento, h)
                                             THEN "vencido" ELSE "pendente"],
          salvou |-> TRUE]

Feito(nome, u, resultado, pk, salvos) ==
    last' = [LastVazio EXCEPT !.op = nome, !.usuario = u, !.resultado = resultado,
                              !.pk = pk, !.salvos = salvos]

\* a variant whose loop runs over the accounts the status filter selects
AtualizadasMutante(tabela, u, status) ==
    {k \in DOMAIN tabela : /\ tabela[k].usuario = u
                           /\ (status = "todos" \/ tabela[k].status = status)}

\* views.py 1470-1475 and 1674-1679: the loop that calls atualizar_status runs
\* over the accounts of the user, before the status filter of the request
\* (1478-1485, 1682-1689) is applied to the query
Atualizadas(tabela, u, status) == {k \in DOMAIN tabela : tabela[k].usuario = u}

\* views.py 1453-1485, contas_receber_list: every account of the user is refreshed
contas_receber_list(u, status) ==
    LET minhas == Atualizadas(contas_receber, u, status)
        r(k) == AccountsReceivable_atualizar_status(contas_receber[k], hoje)
    IN  /\ contas_receber' = [k \in DOMAIN contas_receber |->
                         IF k \in minhas THEN r(k).conta ELSE contas_receber[k]]
        /\ last' = [LastVazio EXCEPT !.op = "contas_receber_list", !.usuario = u,
                                     !.resultado = "ok", !.status = status,
                                     !.salvos = {k \in minhas : r(k).salvou}]
        /\ UNCHANGED <<clientes, produtos, vendas, itens, contas_pagar, seq, hoje,
                       anchor, pN, datas, em_curso>>

\* views.py 1540-1578, conta_receber_detail
conta_receber_detail(u, pk) ==
    IF pk \in DOMAIN contas_receber /\ contas_receber[pk].usuario = u THEN
        LET r == AccountsReceivable_atualizar_status(contas_receber[pk], hoje)
        IN  /\ contas_receber' = [contas_receber EXCEPT ![pk] = r.conta]
            /\ Feito("conta_receber_detail", u, "ok", pk, IF r.salvou THEN {pk} ELSE {})
            /\ UNCHANGED <<clientes, produtos, vendas, itens, contas_pagar, seq, hoje,
                       anchor, pN, datas, em_curso>>
    ELSE
        /\ Feito("conta_receber_detail", u, "conta_nao_encontrada", pk, {})
        /\ UNCHANGED <<dbvars, hoje, anchor, pN, datas, em_curso>>

\* a variant that sets the status and leaves the payment date as it was
MarcarPagoMutante(conta, data_pagamento_obj) == [conta EXCEPT !.status = "pago"]

\* a variant that moves the due date to the day of payment as well
MarcarPagoComVencimento(conta, data_pagamento_obj) ==
    [conta EXCEPT !.data_pagamento = data_pagamento_obj, !.status = "pago",
                  !.data_vencimento = data_pagamento_obj]

\* views.py 1611-1612 and 1975-1976: the two assignments before conta.save()
MarcarPago(conta, data_pagamento_obj) ==
    [conta EXCEPT !.data_pagamento = data_pagamento_obj, !.status = "pago"]

\* a variant that resets the status of a paid account only
MarcarNaoPagoMutante(conta) ==
    [conta EXCEPT !.data_pagamento = None,
                  !.status = IF conta.status = "pago" THEN "pendente" ELSE conta.status]

\* a variant that resets the status and keeps the payment date
MarcarNaoPagoSoStatus(conta) == [conta EXCEPT !.status = "pendente"]

\* views.py 1645-1646 and 2009-2010: the two assignments before conta.save()
MarcarNaoPago(conta) == [conta EXCEPT !.data_pagamento = None, !.status = "pendente"]

\* the outcome of a mark-paid request, with the date field as it was sent
FeitoPago(nome, u, resultado, pk, salvos, data_pagamento) ==
    last' = [LastVazio EXCEPT !.op = nome, !.usuario = u, !.resultado = resultado,
                              !.pk = pk, !.salvos = salvos,
                              !.data_pagamento = data_pagamento]

\* views.py 1581-1626, conta_receber_marcar_pago, POST
conta_receber_marcar_pago(u, pk, data_pagamento) ==
    IF ~(pk \in DOMAIN contas_receber /\ contas_receber[pk].usuario = u) THEN
        /\ FeitoPago("conta_receber_marcar_pago", u, "conta_nao_encontrada", pk, {}, data_pagamento)
        /\ UNCHANGED <<dbvars, hoje, anchor, pN, datas, em_curso>>
    ELSE IF data_pagamento = <<>> THEN
        /\ FeitoPago("conta_receber_marcar_pago", u, "data_obrigatoria", pk, {}, data_pagamento)
        /\ UNCHANGED <<dbvars, hoje, anchor, pN, datas, em_curso>>
    ELSE IF strptime(data_pagamento) = ValueErrorData THEN
        /\ FeitoPago("conta_receber_marcar_pago", u, "erro", pk, {}, data_pagamento)
        /\ UNCHANGED <<dbvars, hoje, anchor, pN, datas, em_curso>>
    ELSE
        /\ contas_receber' = [contas_receber EXCEPT
                               ![pk] = MarcarPago(contas_receber[pk], strptime(data_pagamento))]
        /\ FeitoPago("conta_receber_marcar_pago", u, "ok", pk, {pk}, data_pagamento)
        /\ UNCHANGED <<clientes, produtos, vendas, itens, contas_pagar, seq, hoje,
                       anchor, pN, datas, em_curso>>

\* views.py 1629-1650, conta_receber_marcar_nao_pago
conta_receber_marcar_nao_pago(u, pk) ==
    IF ~(pk \in DOMAIN contas_receber /\ contas_receber[pk].usuario = u) THEN
        /\ Feito("conta_receber_marcar_nao_pago", u, "conta_nao_encontrada", pk, {})
        /\ UNCHANGED <<dbvars, hoje, anchor, pN, datas, em_curso>>
    ELSE
        /\ contas_receber' = [contas_receber EXCEPT ![pk] = MarcarNaoPago(contas_receber[pk])]
        /\ Feito("conta_receber_marcar_nao_pago", u, "ok", pk, {pk})
        /\ UNCHANGED <<clientes, produtos, vendas, itens, contas_pagar, seq, hoje,
                       anchor, pN, datas, em_curso>>

\* views.py 1657-1689, contas_pagar_list: every account of the user is refreshed
contas_pagar_list(u, status) ==
    LET minhas == Atualizadas(contas_pagar, u, status)
        r(k) == AccountsPayable_atualizar_status(contas_pagar[k], hoje)
    IN  /\ contas_pagar' = [k \in DOMAIN contas_pagar |->
                         IF k \in minhas THEN r(k).conta ELSE contas_pagar[k]]
        /\ last' = [LastVazio EXCEPT !.op = "contas_pagar_list", !.usuario = u,
                                     !.resultado = "ok", !.status = status,
                                     !.salvos = {k \in minhas : r(k).salvou}]
        /\ UNCHANGED <<clientes, produtos, vendas, itens, contas_receber, seq, hoje,
                       anchor, pN, datas, em_curso>>

\* views.py 1912-1942, conta_pagar_detail
conta_pagar_detail(u, pk) ==
    IF pk \in DOMAIN contas_pagar /\ contas_pagar[pk].usuario = u THEN
        LET r == AccountsPayable_atualizar_status(contas_pagar[pk], hoje)
        IN  /\ contas_pagar' = [contas_pagar EXCEPT ![pk] = r.conta]
            /\ Feito("conta_pagar_detail", u, "ok", pk, IF r.salvou THEN {pk} ELSE {})
            /\ UNCHANGED <<clientes, produtos, vendas, itens, contas_receber, seq, hoje,
                       anchor, pN, datas, em_curso>>
    ELSE
        /\ Feito("conta_pagar_detail", u, "conta_nao_encontrada", pk, {})
        /\ UNCHANGED <<dbvars, hoje, anchor, pN, datas, em_curso>>

\* views.py 1945-1990, conta_pagar_marcar_pago, POST
conta_pagar_marcar_pago(u, pk, data_pagamento) ==
    IF ~(pk \in DOMAIN contas_pagar /\ contas_pagar[pk].usuario = u) THEN
        /\ FeitoPago("conta_pagar_marcar_pago", u, "conta_nao_encontrada", pk, {}, data_pagamento)
        /\ UNCHANGED <<dbvars, hoje, anchor, pN, datas, em_curso>>
    ELSE IF data_pagamento = <<>> THEN
        /\ FeitoPago("conta_pagar_marcar_pago", u, "data_obrigatoria", pk, {}, data_pagamento)
        /\ UNCHANGED <<dbvars, hoje, anchor, pN, datas, em_curso>>
    ELSE IF strptime(data_pagamento) = ValueErrorData THEN
        /\ FeitoPago("conta_pagar_marcar_pago", u, "erro", pk, {}, data_pagamento)
        /\ UNCHANGED <<dbvars, hoje, anchor, pN, datas, em_curso>>
    ELSE
        /\ contas_pagar' = [contas_pagar EXCEPT
                               ![pk] = MarcarPago(contas_pagar[pk], strptime(data_pagamento))]
        /\ FeitoPago("conta_pagar_marcar_pago", u, "ok", pk, {pk}, data_pagamento)
        /\ UNCHANGED <<clientes, produtos, vendas, itens, contas_receber, seq, hoje,
                       anchor, pN, datas, em_curso>>

\* views.py 1993-2013, conta_pagar_marcar_nao_pago
conta_pagar_marcar_nao_pago(u, pk) ==
    IF ~(pk \in DOMAIN contas_pagar /\ contas_pagar[pk].usuario = u) THEN
        /\ Feito("conta_pagar_marcar_nao_pago", u, "conta_nao_encontrada", pk, {})
        /\ UNCHANGED <<dbvars, hoje, anchor, pN, datas, em_curso>>
    ELSE
        /\ contas_pagar' = [contas_pagar EXCEPT ![pk] = MarcarNaoPago(contas_pagar[pk])]
        /\ Feito("conta_pagar_marcar_nao_pago", u, "ok", pk, {pk})
        /\ UNCHANGED <<clientes, produtos, vendas, itens, contas_receber, seq, hoje,
                       anchor, pN, datas, em_curso>>

\* views.py 1759-1790 and 1835-1866: the checks conta_pagar_create and
\* conta_pagar_edit make on the form, in their order
FormContaPagar(descricao, valor, data_vencimento) ==
    IF descricao = "" THEN "descricao_obrigatoria"
    ELSE IF valor = "" THEN "valor_obrigatorio"
    ELSE IF data_vencimento = <<>> THEN "data_obrigatoria"
    ELSE IF float_(valor).erro THEN "valor_invalido"
    ELSE IF strptime(data_vencimento) = ValueErrorData THEN "valor_invalido"
    ELSE IF float_(valor).valor <= 0 THEN "valor_nao_positivo"
    ELSE "ok"

\* views.py 1740-1797, conta_pagar_create, POST
conta_pagar_create(u, descricao, valor, data_vencimento) ==
    /\ seq.pagar <= MaxContasPagar
    /\ IF FormContaPagar(descricao, valor, data_vencimento) = "ok" THEN
           /\ contas_pagar' =
                  (seq.pagar :> [usuario |-> u, valor |-> Quantize2(float_(valor).valor),
                                 data_vencimento |-> strptime(data_vencimento),
                                 data_pagamento |-> None, status |-> "pendente"])
                  @@ contas_pagar
           /\ seq' = [seq EXCEPT !.pagar = seq.pagar + 1]
           /\ Feito("conta_pagar_create", u, "ok", seq.pagar, {seq.pagar})
           /\ UNCHANGED <<clientes, produtos, vendas, itens, contas_receber, hoje,
                          anchor, pN, datas, em_curso>>
       ELSE
           /\ Feito("conta_pagar_create", u,
                    FormContaPagar(descricao, valor, data_vencimento), 0, {})
           /\ UNCHANGED <<dbvars, hoje, anchor, pN, datas, em_curso>>

\* views.py 1801-1875, conta_pagar_edit, POST
conta_pagar_edit(u, pk, descricao, valor, data_vencimento) ==
    IF ~(pk \in DOMAIN contas_pagar /\ contas_pagar[pk].usuario = u) THEN
        /\ Feito("conta_pagar_edit", u, "conta_nao_encontrada", pk, {})
        /\ UNCHANGED <<dbvars, hoje, anchor, pN, datas, em_curso>>
    ELSE IF FormContaPagar(descricao, valor, data_vencimento) # "ok" THEN
        /\ Feito("conta_pagar_edit", u,
                 FormContaPagar(descricao, valor, data_vencimento), pk, {})
        /\ UNCHANGED <<dbvars, hoje, anchor, pN, datas, em_curso>>
    ELSE
        /\ contas_pagar' = [contas_pagar EXCEPT
                               ![pk].valor = Quantize2(float_(valor).valor),
                               ![pk].data_vencimento = strptime(data_vencimento)]
        /\ Feito("conta_pagar_edit", u, "ok", pk, {pk})
        /\ UNCHANGED <<clientes, produtos, vendas, itens, contas_receber, seq, hoje,
                       anchor, pN, datas, em_curso>>

\* the clock: timezone.now().date() is the next day
RECURSIVE DiaN(_)
DiaN(n) == IF n = 0 THEN DataInicial ELSE DiaSeguinte(DiaN(n - 1))

AvancaDia ==
    /\ hoje # DiaN(MaxDias)
    /\ hoje' = DiaSeguinte(hoje)
    /\ last' = [LastVazio EXCEPT !.op = "dia"]
    /\ UNCHANGED <<dbvars, anchor, pN, datas, em_curso>>

\* views.py 1878-1905, conta_pagar_delete, POST
conta_pagar_delete(u, pk) ==
    IF ~(pk \in DOMAIN contas_pagar /\ contas_pagar[pk].usuario = u) THEN
        /\ Feito("conta_pagar_delete", u, "conta_nao_encontrada", pk, {})
        /\ UNCHANGED <<dbvars, hoje, anchor, pN, datas, em_curso>>
    ELSE
        /\ contas_pagar' = Sem(contas_pagar, {pk})
        /\ Feito("conta_pagar_delete", u, "ok", pk, {})
        /\ UNCHANGED <<clientes, produtos, vendas, itens, contas_receber, seq, hoje,
                       anchor, pN, datas, em_curso>>

\* ------------------------------------------------- clients and products
\* a variant that looks the row up by its identifier alone
GetPkMutante(tabela, pk, u) == pk \in DOMAIN tabela

\* Model.objects.get(pk=pk, usuario=usuario) finds a row
GetPk(tabela, pk, u) == pk \in DOMAIN tabela /\ tabela[pk].usuario = u

\* Model.objects.filter(usuario=u, nome=nome).exclude(pk=pk).exists()
NomeRepetido(tabela, u, nome, pk) ==
    \E k \in DOMAIN tabela \ {pk} : tabela[k].usuario = u /\ tabela[k].nome = nome

\* a request that reads rows and writes none
SoLeitura(nome, u, resultado, pk) ==
    /\ Feito(nome, u, resultado, pk, {})
    /\ UNCHANGED <<dbvars, hoje, anchor, pN, datas, em_curso>>

\* views.py 293-347, cliente_create, POST
cliente_create(u, nome) ==
    /\ seq.cliente <= MaxClientes
    /\ IF nome = "" THEN SoLeitura("cliente_create", u, "nome_obrigatorio", 0)
       ELSE IF NomeRepetido(clientes, u, nome, 0) THEN
           SoLeitura("cliente_create", u, "nome_repetido", 0)
       ELSE
           /\ clientes' = (seq.cliente :> [usuario |-> u, nome |-> nome, ativo |-> TRUE])
                          @@ clientes
           /\ seq' = [seq EXCEPT !.cliente = seq.cliente + 1]
           /\ Feito("cliente_create", u, "ok", seq.cliente, {})
           /\ UNCHANGED <<produtos, vendas, itens, contas_receber, contas_pagar, hoje,
                          anchor, pN, datas, em_curso>>

\* views.py 351-421, cliente_edit, POST
cliente_edit(u, pk, nome, ativo) ==
    IF ~GetPk(clientes, pk, u) THEN
        SoLeitura("cliente_edit", u, "cliente_nao_encontrado", pk)
    ELSE IF nome = "" THEN SoLeitura("cliente_edit", u, "nome_obrigatorio", pk)
    ELSE IF NomeRepetido(clientes, u, nome, pk) THEN
        SoLeitura("cliente_edit", u, "nome_repetido", pk)
    ELSE
        /\ clientes' = [clientes EXCEPT ![pk].nome = nome, ![pk].ativo = ativo]
        /\ Feito("cliente_edit", u, "ok", pk, {})
        /\ UNCHANGED <<produtos, vendas, itens, contas_receber, contas_pagar, seq, hoje,
                       anchor, pN, datas, em_curso>>

\* views.py 425-455, cliente_delete, POST; models.py 242-246 and 390-394:
\* the client's sales and receivables go with it, and so do the items and
\* receivables of those sales (models.py 308-313, 384-389)
cliente_delete(u, pk) ==
    IF ~GetPk(clientes, pk, u) THEN
        SoLeitura("cliente_delete", u, "cliente_nao_encontrado", pk)
    ELSE
        LET vs == {v \in DOMAIN vendas : vendas[v].cliente = pk}
        IN  /\ clientes' = Sem(clientes, {pk})
            /\ vendas' = Sem(vendas, vs)
            /\ itens' = Cascade(itens, vs)
            /\ contas_receber' =
                   Sem(Cascade(contas_receber, vs),
                       {k \in DOMAIN contas_receber : contas_receber[k].cliente = pk})
            /\ Feito("cliente_delete", u, "ok", pk, {})
            /\ UNCHANGED <<produtos, contas_pagar, seq, hoje, anchor, pN, datas, em_curso>>

\* views.py 459-505, cliente_detail
cliente_detail(u, pk) ==
    SoLeitura("cliente_detail", u,
              IF GetPk(clientes, pk, u) THEN "ok" ELSE "cliente_nao_encontrado", pk)

\* a variant that lets a negative stock through
FormProdutoMutante(u, pk, nome, preco, estoque) ==
    IF nome = "" THEN "nome_obrigatorio"
    ELSE IF preco = "" THEN "preco_obrigatorio"
    ELSE IF NomeRepetido(produtos, u, nome, pk) THEN "nome_repetido"
    ELSE IF float_(preco).erro THEN "numeros_invalidos"
    ELSE IF estoque # "" /\ int_(estoque).erro THEN "numeros_invalidos"
    ELSE IF float_(preco).valor < 0 THEN "preco_negativo"
    ELSE "ok"

\* views.py 583-618 and 678-714: the checks produto_create and produto_edit
\* make on the form, in their order
FormProduto(u, pk, nome, preco, estoque) ==
    IF nome = "" THEN "nome_obrigatorio"
    ELSE IF preco = "" THEN "preco_obrigatorio"
    ELSE IF NomeRepetido(produtos, u, nome, pk) THEN "nome_repetido"
    ELSE IF float_(preco).erro THEN "numeros_invalidos"
    ELSE IF estoque # "" /\ int_(estoque).erro THEN "numeros_invalidos"
    ELSE IF float_(preco).valor < 0 THEN "preco_negativo"
    ELSE IF estoque # "" /\ int_(estoque).valor < 0 THEN "estoque_negativo"
    ELSE "ok"

\* int(estoque) if estoque else 0
Estoque(estoque) == IF estoque = "" THEN 0 ELSE int_(estoque).valor

\* views.py 562-643, produto_create, POST
produto_create(u, nome, preco, estoque) ==
    /\ seq.produto <= MaxProdutos
    /\ IF FormProduto(u, 0, nome, preco, estoque) # "ok" THEN
           SoLeitura("produto_create", u, FormProduto(u, 0, nome, preco, estoque), 0)
       ELSE
           /\ produtos' = (seq.produto :> [usuario |-> u, nome |-> nome,
                                           preco |-> Quantize2(float_(preco).valor),
                                           estoque |-> Estoque(estoque), ativo |-> TRUE])
                          @@ produtos
           /\ seq' = [seq EXCEPT !.produto = seq.produto + 1]
           /\ Feito("produto_create", u, "ok", seq.produto, {})
           /\ UNCHANGED <<clientes, vendas, itens, contas_receber, contas_pagar, hoje,
                          anchor, pN, datas, em_curso>>

\* a variant of produto_edit that reprices the line items of the product
produto_editMutante(u, pk, nome, preco, estoque, ativo) ==
    IF ~GetPk(produtos, pk, u) THEN
        SoLeitura("produto_edit", u, "produto_nao_encontrado", pk)
    ELSE IF FormProduto(u, pk, nome, preco, estoque) # "ok" THEN
        SoLeitura("produto_edit", u, FormProduto(u, pk, nome, preco, estoque), pk)
    ELSE
        /\ produtos' = [produtos EXCEPT ![pk].nome = nome,
                                        ![pk].preco = Quantize2(float_(preco).valor),
                                        ![pk].estoque = Estoque(estoque),
                                        ![pk].ativo = ativo]
        /\ itens' = [k \in DOMAIN itens |->
                        IF itens[k].produto = pk
                        THEN [itens[k] EXCEPT
                                 !.preco_unitario = Quantize2(float_(preco).valor),
                                 !.subtotal = itens[k].quantidade
                                              * Quantize2(float_(preco).valor)]
                        ELSE itens[k]]
        /\ Feito("produto_edit", u, "ok", pk, {})
        /\ UNCHANGED <<clientes, vendas, contas_receber, contas_pagar, seq, hoje,
                       anchor, pN, datas, em_curso>>

\* views.py 647-743, produto_edit, POST
produto_edit(u, pk, nome, preco, estoque, ativo) ==
    IF ~GetPk(produtos, pk, u) THEN
        SoLeitura("produto_edit", u, "produto_nao_encontrado", pk)
    ELSE IF FormProduto(u, pk, nome, preco, estoque) # "ok" THEN
        SoLeitura("produto_edit", u, FormProduto(u, pk, nome, preco, estoque), pk)
    ELSE
        /\ produtos' = [produtos EXCEPT ![pk].nome = nome,
                                        ![pk].preco = Quantize2(float_(preco).valor),
                                        ![pk].estoque = Estoque(estoque),
                                        ![pk].ativo = ativo]
        /\ Feito("produto_edit", u, "ok", pk, {})
        /\ UNCHANGED <<clientes, vendas, itens, contas_receber, contas_pagar, seq, hoje,
                       anchor, pN, datas, em_curso>>

\* a null foreign key
Nulo == 0

\* a variant that deletes the items of the product
SetNullMutante(its, pk) == Sem(its, {k \in DOMAIN its : its[k].produto = pk})

\* models.py 314-320, SaleItem.produto, on_delete=SET_NULL: the items of the
\* product keep their row, with no product
SetNull(its, pk) ==
    [k \in DOMAIN its |-> IF its[k].produto = pk THEN [its[k] EXCEPT !.produto = Nulo]
                          ELSE its[k]]

\* views.py 747-777, produto_delete, POST
produto_delete(u, pk) ==
    IF ~GetPk(produtos, pk, u) THEN
        SoLeitura("produto_delete", u, "produto_nao_encontrado", pk)
    ELSE
        /\ produtos' = Sem(produtos, {pk})
        /\ itens' = SetNull(itens, pk)
        /\ Feito("produto_delete", u, "ok", pk, {})
        /\ UNCHANGED <<clientes, vendas, contas_receber, contas_pagar, seq, hoje,
                       anchor, pN, datas, em_curso>>

\* views.py 781-816, produto_detail
produto_detail(u, pk) ==
    SoLeitura("produto_detail", u,
              IF GetPk(produtos, pk, u) THEN "ok" ELSE "produto_nao_encontrado", pk)

\* views.py 820-885, produto_ajustar_estoque, POST
produto_ajustar_estoque(u, pk, operacao, quantidade) ==
    LET q == int_(quantidade)
        pedido == [LastVazio EXCEPT !.op = "produto_ajustar_estoque", !.usuario = u,
                                    !.pk = pk, !.operacao = operacao,
                                    !.quantidade = quantidade]
        R(resultado) ==
            /\ last' = [pedido EXCEPT !.resultado = resultado]
            /\ UNCHANGED <<dbvars, hoje, anchor, pN, datas, em_curso>>
        Salva(estoque) ==
            /\ produtos' = [produtos EXCEPT ![pk].estoque = estoque]
            /\ last' = [pedido EXCEPT !.resultado = "ok"]
            /\ UNCHANGED <<clientes, vendas, itens, contas_receber, contas_pagar, seq,
                           hoje, anchor, pN, datas, em_curso>>
    IN  IF ~GetPk(produtos, pk, u) THEN R("produto_nao_encontrado")
        ELSE IF q.erro THEN R("quantidade_invalida")
        ELSE IF q.valor <= 0 THEN R("quantidade_nao_positiva")
        ELSE IF operacao = "adicionar" THEN
            /\ produtos[pk].estoque + q.valor <= MaxEstoque
            /\ Salva(produtos[pk].estoque + q.valor)
        ELSE IF produtos[pk].estoque < q.valor THEN R("estoque_insuficiente")
        ELSE Salva(produtos[pk].estoque - q.valor)

\* views.py 1115-1150, venda_detail (venda_gerar_pdf, 1203-1230, reads the same rows)
venda_detail(u, pk) ==
    SoLeitura("venda_detail", u,
              IF GetPk(vendas, pk, u) THEN "ok" ELSE "venda_nao_encontrada", pk)

\* ------------------------------------------- the accounts specification
\* One sale (a form of two installments, due 2024-01-31 and 2024-02-29) and
\* the payable forms, with the clock running from 2024-01-30.
ContasVendaCreate ==
    \E u \in Usuarios :
        /\ vendas = <<>>
        /\ venda_create(u, ClienteProprio(u), DataVenda, "2", <<ProdutoProprio(u)>>,
                        <<"1">>, <<"10,00">>)

DatasPagamento == {<<>>, DataInicial, <<2024, 2, 1>>, <<2024, 2, 30>>}
DatasContaPagar == {<<>>, DataVenda, <<2024, 2, 30>>}
ContasReceberIds == 1..2
ContasPagarIds == 1..MaxContasPagar

\* request.GET.get('status', 'pendente'): the three statuses, 'todos', another
StatusFiltros == {"pendente", "vencido", "pago", "todos", "x"}

ContasReceberList ==
    \E u \in Usuarios : \E status \in StatusFiltros : contas_receber_list(u, status)
ContaReceberDetail ==
    \E u \in Usuarios : \E pk \in ContasReceberIds : conta_receber_detail(u, pk)
ContaReceberMarcarPago ==
    \E u \in Usuarios : \E pk \in ContasReceberIds : \E d \in DatasPagamento :
        conta_receber_marcar_pago(u, pk, d)
ContaReceberMarcarNaoPago ==
    \E u \in Usuarios : \E pk \in ContasReceberIds : conta_receber_marcar_nao_pago(u, pk)
ContasPagarList ==
    \E u \in Usuarios : \E status \in StatusFiltros : contas_pagar_list(u, status)
ContaPagarDetail ==
    \E u \in Usuarios : \E pk \in ContasPagarIds : conta_pagar_detail(u, pk)
ContaPagarCreate ==
    \E u \in Usuarios : \E desc \in {"", "luz"} : \E valor \in {"0", "5.00", "abc"} :
        \E d \in DatasContaPagar : conta_pagar_create(u, desc, valor, d)
ContaPagarEdit ==
    \E u \in Usuarios : \E pk \in ContasPagarIds : \E valor \in {"0", "5.00"} :
        \E d \in {DataVenda, DataInicial} : conta_pagar_edit(u, pk, "luz", valor, d)
ContaPagarMarcarPago ==
    \E u \in Usuarios : \E pk \in ContasPagarIds : \E d \in DatasPagamento :
        conta_pagar_marcar_pago(u, pk, d)
ContaPagarMarcarNaoPago ==
    \E u \in Usuarios : \E pk \in ContasPagarIds : conta_pagar_marcar_nao_pago(u, pk)

NextContas ==
    \/ ContasVendaCreate
    \/ ContasReceberList \/ ContaReceberDetail
    \/ ContaReceberMarcarPago \/ ContaReceberMarcarNaoPago
    \/ ContasPagarList \/ ContaPagarDetail
    \/ ContaPagarCreate \/ ContaPagarEdit
    \/ ContaPagarMarcarPago \/ ContaPagarMarcarNaoPago
    \/ AvancaDia

SpecContas == Init /\ [][NextContas]_vars

\* ------------------------------------------- the installment calendar alone
\* The due dates of views.py 1063-1089 as a function of the anchor date and
\* of the installment count: every date of MaxAnos years is an anchor.
Ancoras ==
    {d \in (2023..(2022 + MaxAnos)) \X (1..12) \X (1..31) : DataValida(d)}

InitParcelas ==
    /\ clientes = <<>> /\ produtos = <<>> /\ vendas = <<>> /\ itens = <<>>
    /\ contas_receber = <<>> /\ contas_pagar = <<>>
    /\ seq = [cliente |-> 3, produto |-> 3, venda |-> 1, item |-> 1, receber |-> 1,
              pagar |-> 1]
    /\ hoje = DataInicial
    /\ last = LastVazio
    /\ anchor \in Ancoras
    /\ pN \in 1..MaxMeses
    /\ datas = <<>>
    /\ em_curso = <<>>

\* one turn of the loop for i in range(parcelas)
ParcelaSeguinte ==
    /\ Len(datas) < pN
    /\ datas' = Append(datas, DataParcela(anchor, Len(datas)))
    /\ UNCHANGED <<dbvars, hoje, last, anchor, pN, em_curso>>

NextParcelas == ParcelaSeguinte

SpecParcelas == InitParcelas /\ [][NextParcelas]_vars

\* ------------------------------------------- the ownership specification
\* Every view that takes an identifier, called by both users with the
\* identifiers of their own rows, of the other user's rows and of no row.
IdsPk == 1..2
IdsPagar == 1..MaxContasPagar

DonosVendaCreate ==
    \E u \in Usuarios : \E c \in {"1", "2"} : \E p \in {"1", "2"} :
        venda_create(u, c, DataVenda, "1", <<p>>, <<"1">>, <<"5.00">>)
DonosVendaDetail == \E u \in Usuarios : \E pk \in IdsPk : venda_detail(u, pk)
DonosVendaDelete == \E u \in Usuarios : \E pk \in IdsPk : venda_delete(u, pk)
ClienteCreate == \E u \in Usuarios : cliente_create(u, "caio")
ClienteEdit ==
    \E u \in Usuarios : \E pk \in IdsPk : cliente_edit(u, pk, "bia", FALSE)
ClienteDelete == \E u \in Usuarios : \E pk \in IdsPk : cliente_delete(u, pk)
ClienteDetail == \E u \in Usuarios : \E pk \in IdsPk : cliente_detail(u, pk)
ProdutoCreate ==
    \E u \in Usuarios : produto_create(u, "giz", "10,00", "")
ProdutoEdit ==
    \E u \in Usuarios : \E pk \in IdsPk : produto_edit(u, pk, "giz", "10,00", "1", FALSE)
ProdutoDelete == \E u \in Usuarios : \E pk \in IdsPk : produto_delete(u, pk)
ProdutoDetail == \E u \in Usuarios : \E pk \in IdsPk : produto_detail(u, pk)
ProdutoAjustarEstoque ==
    \E u \in Usuarios : \E pk \in IdsPk : \E operacao \in {"adicionar", "remover"} :
        produto_ajustar_estoque(u, pk, operacao, "1")
DonosContaReceberDetail ==
    \E u \in Usuarios : \E pk \in IdsPk : conta_receber_detail(u, pk)
DonosContaReceberMarcarPago ==
    \E u \in Usuarios : \E pk \in IdsPk : conta_receber_marcar_pago(u, pk, DataInicial)
DonosContaReceberMarcarNaoPago ==
    \E u \in Usuarios : \E pk \in IdsPk : conta_receber_marcar_nao_pago(u, pk)
DonosContaPagarCreate ==
    \E u \in Usuarios : conta_pagar_create(u, "luz", "5.00", DataVenda)
DonosContaPagarEdit ==
    \E u \in Usuarios : \E pk \in IdsPagar : conta_pagar_edit(u, pk, "luz", "10,00", DataInicial)
DonosContaPagarDelete == \E u \in Usuarios : \E pk \in IdsPagar : conta_pagar_delete(u, pk)
DonosContaPagarDetail == \E u \in Usuarios : \E pk \in IdsPagar : conta_pagar_detail(u, pk)
DonosContaPagarMarcarPago ==
    \E u \in Usuarios : \E pk \in IdsPagar : conta_pagar_marcar_pago(u, pk, DataInicial)
DonosContaPagarMarcarNaoPago ==
    \E u \in Usuarios : \E pk \in IdsPagar : conta_pagar_marcar_nao_pago(u, pk)

\* the rows of a table that are not as the initial state has them
Alterados(tabela, iniciais, prox) ==
    {k \in 1..(prox - 1) : \/ k \notin DOMAIN tabela
                           \/ k \notin DOMAIN iniciais
                           \/ tabela[k] # iniciais[k]}

\* how far the store is from the initial state: clients and products that
\* changed, sales and payables ever created, accounts no longer 'pendente'
Alteracoes ==
    Cardinality(Alterados(clientes, ClientesIniciais, seq.cliente))
    + Cardinality(Alterados(produtos, ProdutosIniciais, seq.produto))
    + (seq.venda - 1) + (seq.pagar - 1)
    + Cardinality({k \in DOMAIN contas_receber : contas_receber[k].status # "pendente"})
    + Cardinality({k \in DOMAIN contas_pagar : contas_pagar[k].status # "pendente"})

\* the requests explored are those that keep the store within MaxAlteracoes
Limite == Alteracoes' <= MaxAlteracoes

NextDonos ==
    \/ DonosVendaCreate /\ Limite
    \/ DonosVendaDetail /\ Limite
    \/ DonosVendaDelete /\ Limite
    \/ ClienteCreate /\ Limite
    \/ ClienteEdit /\ Limite
    \/ ClienteDelete /\ Limite
    \/ ClienteDetail /\ Limite
    \/ ProdutoCreate /\ Limite
    \/ ProdutoEdit /\ Limite
    \/ ProdutoDelete /\ Limite
    \/ ProdutoDetail /\ Limite
    \/ ProdutoAjustarEstoque /\ Limite
    \/ ContasReceberList /\ Limite
    \/ DonosContaReceberDetail /\ Limite
    \/ DonosContaReceberMarcarPago /\ Limite
    \/ DonosContaReceberMarcarNaoPago /\ Limite
    \/ ContasPagarList /\ Limite
    \/ DonosContaPagarCreate /\ Limite
    \/ DonosContaPagarEdit /\ Limite
    \/ DonosContaPagarDelete /\ Limite
    \/ DonosContaPagarDetail /\ Limite
    \/ DonosContaPagarMarcarPago /\ Limite
    \/ DonosContaPagarMarcarNaoPago /\ Limite

SpecDonos == Init /\ [][NextDonos]_vars

\* ------------------------------------------- SaleItem.save, step by step
\* Requests that each save a new line item of one sale, with no transaction
\* and no lock around SaleItem.save: the row is inserted, the items of the
\* sale are read and summed, the sum is written to the sale; the statements
\* of one request may fall between those of another.
Pedidos == 1..MaxPedidos

Passo(nome, r, v) == last' = [LastVazio EXCEPT !.op = nome, !.pk = r, !.venda = v]

\* models.py 346-347: the subtotal is computed and the row is inserted
Persiste(r, v, produto, quantidade, preco) ==
    /\ r \notin DOMAIN em_curso
    /\ v \in DOMAIN vendas
    /\ itens' = SaleItem_save(vendas, itens, seq.item, v, produto, quantidade, preco).itens
    /\ seq' = [seq EXCEPT !.item = seq.item + 1]
    /\ em_curso' = (r :> [pc |-> "ler", venda |-> v, item |-> seq.item,
                          vistos |-> {}, total |-> 0]) @@ em_curso
    /\ Passo("persiste", r, v)
    /\ UNCHANGED <<clientes, produtos, vendas, contas_receber, contas_pagar, hoje,
                   anchor, pN, datas>>

\* models.py 287: total = sum(item.subtotal for item in self.itens.all())
Le(r) ==
    /\ r \in DOMAIN em_curso
    /\ em_curso[r].pc = "ler"
    /\ LET vistos == ItensDaVenda(itens, em_curso[r].venda)
       IN  em_curso' = [em_curso EXCEPT ![r].pc = "escrever", ![r].vistos = vistos,
                                        ![r].total = SomaSubtotais(itens, vistos)]
    /\ Passo("le", r, em_curso[r].venda)
    /\ UNCHANGED <<dbvars, hoje, anchor, pN, datas>>

\* a variant that sums the items again at the moment of writing
EscritoMutante(pedido) == SomaSubtotais(itens, ItensDaVenda(itens, pedido.venda))

\* models.py 288: self.valor_total = total
Escrito(pedido) == pedido.total

\* models.py 288-289: self.valor_total = total; self.save()
Escreve(r) ==
    /\ r \in DOMAIN em_curso
    /\ em_curso[r].pc = "escrever"
    /\ vendas' = [vendas EXCEPT ![em_curso[r].venda].valor_total = Escrito(em_curso[r])]
    /\ em_curso' = [em_curso EXCEPT ![r].pc = "fim"]
    /\ Passo("escreve", r, em_curso[r].venda)
    /\ UNCHANGED <<clientes, produtos, itens, contas_receber, contas_pagar, seq, hoje,
                   anchor, pN, datas>>

\* the sale the items are added to
ConcVendaCreate ==
    \E u \in Usuarios :
        /\ vendas = <<>>
        /\ venda_create(u, ClienteProprio(u), DataVenda, "1", <<ProdutoProprio(u)>>,
                        <<"1">>, <<"5.00">>)

ConcPersiste ==
    \E r \in Pedidos : \E v \in DOMAIN vendas :
        \E produto \in {p \in DOMAIN produtos : produtos[p].usuario = vendas[v].usuario} :
            \E quantidade \in {1, 2} : \E preco \in {5000, 10000} :
                Persiste(r, v, produto, quantidade, preco)
ConcLe == \E r \in Pedidos : Le(r)
ConcEscreve == \E r \in Pedidos : Escreve(r)

NextConcorrente == ConcVendaCreate \/ ConcPersiste \/ ConcLe \/ ConcEscreve

SpecConcorrente == Init /\ [][NextConcorrente]_vars

\* ------------------------------- the refresh and mark-paid, step by step
\* A list or detail request loads accounts into memory, and atualizar_status
\* later saves each of them whole (save() with no update_fields writes every
\* column from the object in memory); a mark-paid request loads its account
\* and saves it whole. No transaction and no lock is taken, so the statements
\* of one request may fall between those of another.

\* views.py 1470-1474 (the accounts of the user, for a list), 1558 and 1596
\* (the account pk, for a detail or a mark-paid): the rows are read
Carrega(r, u, op, pk) ==
    LET ks == IF op = "contas_receber_list"
              THEN {k \in DOMAIN contas_receber : contas_receber[k].usuario = u}
              ELSE {k \in {pk} : GetPk(contas_receber, k, u)}
    IN  /\ r \notin DOMAIN em_curso
        /\ ks # {}
        /\ em_curso' = (r :> [pc |-> "carregado", op |-> op,
                              pk |-> IF op = "contas_receber_list" THEN 0 ELSE pk,
                              contas |-> [k \in ks |-> contas_receber[k]]]) @@ em_curso
        /\ Passo("carrega", r, 0)
        /\ UNCHANGED <<dbvars, hoje, anchor, pN, datas>>

\* views.py 1474-1475 and 1565, models.py 430-442: atualizar_status on the
\* next object in memory, in the order of the query (latest due date first)
AtualizaConta(r) ==
    /\ r \in DOMAIN em_curso
    /\ em_curso[r].pc = "carregado"
    /\ em_curso[r].op \in {"contas_receber_list", "conta_receber_detail"}
    /\ LET e == em_curso[r]
           k == CHOOSE k \in DOMAIN e.contas :
                    \A j \in DOMAIN e.contas :
                        ~DataLT(e.contas[k].data_vencimento, e.contas[j].data_vencimento)
           res == AccountsReceivable_atualizar_status(e.contas[k], hoje)
           resto == Sem(e.contas, {k})
       IN  /\ contas_receber' = IF res.salvou
                                THEN [contas_receber EXCEPT ![k] = res.conta]
                                ELSE contas_receber
           /\ em_curso' = [em_curso EXCEPT
                              ![r] = [e EXCEPT !.contas = resto,
                                               !.pc = IF DOMAIN resto = {} THEN "fim"
                                                      ELSE "carregado"]]
    /\ Passo("atualiza", r, 0)
    /\ UNCHANGED <<clientes, produtos, vendas, itens, contas_pagar, seq, hoje,
                   anchor, pN, datas>>

\* views.py 1609-1613: the two assignments and conta.save()
PagoSalva(r, data_pagamento_obj) ==
    /\ r \in DOMAIN em_curso
    /\ em_curso[r].pc = "carregado"
    /\ em_curso[r].op = "conta_receber_marcar_pago"
    /\ contas_receber' =
           [contas_receber EXCEPT
               ![em_curso[r].pk] = MarcarPago(em_curso[r].contas[em_curso[r].pk],
                                              data_pagamento_obj)]
    /\ em_curso' = [em_curso EXCEPT ![r].pc = "fim"]
    /\ Passo("pago_salva", r, 0)
    /\ UNCHANGED <<clientes, produtos, vendas, itens, contas_pagar, seq, hoje,
                   anchor, pN, datas>>

NextAtualizacao ==
    \/ ContasVendaCreate
    \/ AvancaDia
    \/ \E r \in Pedidos : \E u \in Usuarios : \E pk \in ContasReceberIds :
           \E op \in {"contas_receber_list", "conta_receber_detail",
                      "conta_receber_marcar_pago"} : Carrega(r, u, op, pk)
    \/ \E r \in Pedidos : AtualizaConta(r)
    \/ \E r \in Pedidos : PagoSalva(r, DataInicial)

SpecAtualizacao == Init /\ [][NextAtualizacao]_vars

\* ------------------------------------------------ the stock specification
\* Products are created, edited and adjusted with stock fields and
\* quantities that are empty, zero, negative, positive and not a number, and
\* sold in quantities up to and above their stock.
EstoqueTokens == {"", "0", "2", "-1", "x"}
QuantidadeTokens == {"0", "-1", "1", "2", "x"}

NextEstoque ==
    \/ \E u \in Usuarios : \E estoque \in EstoqueTokens :
           produto_create(u, "giz", "10,00", estoque)
    \/ \E u \in Usuarios : \E pk \in 1..MaxProdutos : \E estoque \in EstoqueTokens :
           produto_edit(u, pk, "lapis", "5.00", estoque, TRUE)
    \/ \E u \in Usuarios : \E pk \in 1..MaxProdutos :
           \E operacao \in {"adicionar", "remover"} :
               \E quantidade \in QuantidadeTokens :
                   produto_ajustar_estoque(u, pk, operacao, quantidade)
    \/ \E u \in Usuarios : \E q \in {"1", "2"} :
           /\ vendas = <<>>
           /\ venda_create(u, ClienteProprio(u), DataVenda, "1", <<ProdutoProprio(u)>>,
                           <<q>>, <<"5.00">>)

SpecEstoque == Init /\ [][NextEstoque]_vars

\* ------------------------------------------------------------------ claims
ContasDaVenda(v) == {k \in DOMAIN contas_receber : contas_receber[k].venda = v}

VendaCriada == last.op = "venda_create" /\ last.resultado = "ok"

\* a row of a sale form is due an item: it names a product of the requesting
\* user, a quantity > 0 and a unit price >= 0
TuplaPedida(u, t) ==
    /\ ~int_(t[1]).erro
    /\ int_(t[1]).valor \in DOMAIN produtos
    /\ produtos[int_(t[1]).valor].usuario = u
    /\ ~int_(t[2]).erro
    /\ int_(t[2]).valor > 0
    /\ ~float_(t[3]).erro
    /\ float_(t[3]).valor >= 0

\* the rows due an item, in order: <<product id, quantity, unit price in mills>>
RECURSIVE TuplasPedidas(_, _)
TuplasPedidas(u, tuplas) ==
    IF tuplas = <<>> THEN <<>>
    ELSE LET t == Head(tuplas)
             resto == TuplasPedidas(u, Tail(tuplas))
         IN  IF TuplaPedida(u, t)
             THEN <<<<int_(t[1]).valor, int_(t[2]).valor, float_(t[3]).valor>>>> \o resto
             ELSE resto

Devidos == TuplasPedidas(last.usuario, last.tuplas)

\* the request names, by number, a client that does not exist or that
\* belongs to another user
ClienteAlheio(u, cliente_id) ==
    /\ ~int_(cliente_id).erro
    /\ \/ int_(cliente_id).valor \notin DOMAIN clientes
       \/ clientes[int_(cliente_id).valor].usuario # u


\* C2: when venda_create is given at least one row and no row is valid, the
\* request fails and leaves no Sale (and no AccountsReceivable) of its own.
\* The code creates the sale with total 0 and its receivables.
C2_VendaVaziaRejeitada ==
    (last.op = "venda_create" /\ Len(last.tuplas) >= 1 /\ Devidos = <<>>)
        => /\ last.resultado # "ok"
           /\ last.venda \notin DOMAIN vendas
           /\ ContasDaVenda(last.venda) = {}

\* C7: a successful venda_create asked for N >= 1 installments leaves exactly N
\* receivables of the new sale, each with the sale's client and owner; and a
\* receivable row only ever appears in a venda_create, as a receivable of the
\* sale it created.
C7_UmaContaPorParcela ==
    /\ [](VendaCriada /\ ~int_(last.parcelas).erro /\ int_(last.parcelas).valor >= 1
            => /\ last.venda \in DOMAIN vendas
               /\ Cardinality(ContasDaVenda(last.venda)) = int_(last.parcelas).valor
               /\ \A k \in ContasDaVenda(last.venda) :
                      /\ contas_receber[k].cliente = vendas[last.venda].cliente
                      /\ contas_receber[k].usuario = vendas[last.venda].usuario
                      /\ contas_receber[k].usuario = last.usuario)
    /\ [][\A k \in DOMAIN contas_receber' \ DOMAIN contas_receber :
              /\ last'.op = "venda_create"
              /\ last'.venda \notin DOMAIN vendas
              /\ contas_receber'[k].venda = last'.venda]_vars

\* C7 witness: a second sale, created with three installments while the
\* first sale and its receivables exist
C7_Witness ==
    /\ VendaCriada /\ last.parcelas = "3" /\ last.venda = 2
    /\ 1 \in DOMAIN vendas /\ ContasDaVenda(1) # {}
    /\ Cardinality(ContasDaVenda(2)) = 3

\* C8: the receivables of a new sale all carry the same amount, the cent
\* nearest to total / N, so nothing is added to any installment; the sale of
\* 2 x 10.00 and 1 x 5.00 in 2 installments has total 25.00 and two
\* receivables of 12.50 due one calendar month apart.
C8_ValorIgualPorParcela ==
    VendaCriada =>
        LET v == last.venda
            cs == ContasDaVenda(v)
            n == Cardinality(cs)
        IN  /\ \A k \in cs :
                   /\ 2 * (contas_receber[k].valor * n - vendas[v].valor_total) <= n
                   /\ 2 * (vendas[v].valor_total - contas_receber[k].valor * n) <= n
            /\ \A j, k \in cs : contas_receber[j].valor = contas_receber[k].valor
            /\ (last.parcelas = "2" /\ Len(Devidos) = 2
                /\ Devidos[1][2] = 2 /\ Devidos[1][3] = 10000
                /\ Devidos[2][2] = 1 /\ Devidos[2][3] = 5000)
                   => /\ vendas[v].valor_total = 2500
                      /\ {contas_receber[k].valor : k \in cs} = {1250}
                      /\ vendas[v].data_vencimento = DataVenda
                            => {contas_receber[k].data_vencimento : k \in cs}
                                   = {<<2024, 1, 31>>, <<2024, 2, 29>>}

\* C8 witness: the example sale, and a total that N does not divide
C8_Witness ==
    /\ VendaCriada /\ last.parcelas = "2" /\ Len(Devidos) = 2
    /\ vendas[last.venda].valor_total = 2500
    /\ {contas_receber[k].valor : k \in ContasDaVenda(last.venda)} = {1250}
    /\ \E w \in DOMAIN vendas :
           /\ w # last.venda /\ vendas[w].valor_total = 1000
           /\ {contas_receber[k].valor : k \in ContasDaVenda(w)} = {333}

C5_MesDaParcela ==
    /\ \A i \in 1..Len(datas) :
           LET meses == (mes(anchor) - 1) + (i - 1)
           IN  /\ Len(datas[i]) = 3
               /\ mes(datas[i]) = (meses % 12) + 1
               /\ ano(datas[i]) = ano(anchor) + (meses \div 12)
    /\ Len(datas) >= 1 => datas[1] = anchor
    /\ (anchor = <<2024, 11, 30>> /\ Len(datas) >= 3)
           => SubSeq(datas, 1, 3) = <<<<2024, 11, 30>>, <<2024, 12, 30>>, <<2025, 1, 30>>>>

\* C5 witness: a December anchor whose fourteenth installment is two years on
C5_Witness ==
    /\ mes(anchor) = 12 /\ pN = 14 /\ Len(datas) = 14
    /\ ano(datas[14]) = ano(anchor) + 2 /\ mes(datas[14]) = 1

\* the days of a month, written out
DiasDoMes(y, m) ==
    CASE m \in {1, 3, 5, 7, 8, 10, 12} -> 31
      [] m \in {4, 6, 9, 11} -> 30
      [] m = 2 /\ y \in {2024, 2028} -> 29
      [] OTHER -> 28

OpsReceber == {"contas_receber_list", "conta_receber_detail"}
OpsPagar == {"contas_pagar_list", "conta_pagar_detail"}

\* C3: a list or detail request leaves every account whose status is 'pago'
\* as it was, whatever today and its due date are, and calls save() on none.
C3_PagoIntocado ==
    [][/\ last'.op \in OpsReceber =>
              \A k \in DOMAIN contas_receber :
                  contas_receber[k].status = "pago"
                      => /\ k \in DOMAIN contas_receber'
                         /\ contas_receber'[k] = contas_receber[k]
                         /\ k \notin last'.salvos
       /\ last'.op \in OpsPagar =>
              \A k \in DOMAIN contas_pagar :
                  contas_pagar[k].status = "pago"
                      => /\ k \in DOMAIN contas_pagar'
                         /\ contas_pagar'[k] = contas_pagar[k]
                         /\ k \notin last'.salvos]_vars

\* C3 witness: the owner's list request met a paid receivable whose due
\* date is past, and saved another account
C3_Witness ==
    /\ last.op = "contas_receber_list" /\ last.salvos # {}
    /\ \E k \in DOMAIN contas_receber :
           /\ contas_receber[k].usuario = last.usuario
           /\ contas_receber[k].status = "pago"
           /\ DataLT(contas_receber[k].data_vencimento, hoje)
    /\ \E k \in DOMAIN contas_pagar : contas_pagar[k].status = "pago"

\* days in order, for comparing two dates
Ord(d) == ano(d) * 10000 + mes(d) * 100 + dia(d)

Derivado(conta) ==
    /\ conta.status = IF Ord(conta.data_vencimento) < Ord(hoje) THEN "vencido"
                      ELSE "pendente"
    /\ conta.data_vencimento = hoje => conta.status = "pendente"
    /\ DiaSeguinte(conta.data_vencimento) = hoje => conta.status = "vencido"

\* C4: after a list request every account of the user that is not paid, and
\* after a detail request the account viewed if it is not paid, is 'vencido'
\* exactly when its due date is before today and 'pendente' otherwise: due
\* today is 'pendente', due yesterday is 'vencido'.
C4_StatusDerivado ==
    /\ last.op = "contas_receber_list" =>
           \A k \in DOMAIN contas_receber :
               (contas_receber[k].usuario = last.usuario /\ contas_receber[k].status # "pago")
                   => Derivado(contas_receber[k])
    /\ (last.op = "conta_receber_detail" /\ last.resultado = "ok"
        /\ contas_receber[last.pk].status # "pago") => Derivado(contas_receber[last.pk])
    /\ last.op = "contas_pagar_list" =>
           \A k \in DOMAIN contas_pagar :
               (contas_pagar[k].usuario = last.usuario /\ contas_pagar[k].status # "pago")
                   => Derivado(contas_pagar[k])
    /\ (last.op = "conta_pagar_detail" /\ last.resultado = "ok"
        /\ contas_pagar[last.pk].status # "pago") => Derivado(contas_pagar[last.pk])

\* C4 witness: a list request on the day after a receivable's due date, which
\* made it 'vencido', while a payable due on 2024-01-31 is 'vencido' as well
C4_Witness ==
    /\ last.op = "contas_receber_list"
    /\ \E k \in last.salvos :
           /\ DiaSeguinte(contas_receber[k].data_vencimento) = hoje
           /\ contas_receber[k].status = "vencido"
    /\ \E k \in DOMAIN contas_pagar :
           /\ contas_pagar[k].data_vencimento = DiaSeguinte(DataInicial)
           /\ contas_pagar[k].status = "vencido"

C1_TotalIgualSomaDosItens ==
    \A v \in DOMAIN vendas :
        vendas[v].valor_total = SomaSubtotais(itens, ItensDaVenda(itens, v))

\* ---------------------------------------------------------------- ownership
\* the rows of a table that belong to user v
Do(tabela, v) ==
    [k \in {j \in DOMAIN tabela : tabela[j].usuario = v} |-> tabela[k]]

\* the line items of the sales that belong to user v
ItensDo(vs, its, v) ==
    [k \in {j \in DOMAIN its : its[j].venda \in DOMAIN vs /\ vs[its[j].venda].usuario = v}
       |-> its[k]]

\* the table a request addresses by identifier, and its not-found outcome
Alvo(op) ==
    CASE op \in {"cliente_edit", "cliente_delete", "cliente_detail"} ->
             [tabela |-> clientes, nao |-> "cliente_nao_encontrado"]
      [] op \in {"produto_edit", "produto_delete", "produto_detail",
                 "produto_ajustar_estoque"} ->
             [tabela |-> produtos, nao |-> "produto_nao_encontrado"]
      [] op \in {"venda_detail", "venda_delete"} ->
             [tabela |-> vendas, nao |-> "venda_nao_encontrada"]
      [] op \in {"conta_receber_detail", "conta_receber_marcar_pago",
                 "conta_receber_marcar_nao_pago"} ->
             [tabela |-> contas_receber, nao |-> "conta_nao_encontrada"]
      [] op \in {"conta_pagar_edit", "conta_pagar_delete", "conta_pagar_detail",
                 "conta_pagar_marcar_pago", "conta_pagar_marcar_nao_pago"} ->
             [tabela |-> contas_pagar, nao |-> "conta_nao_encontrada"]
      [] OTHER -> [tabela |-> <<>>, nao |-> ""]

\* C11: a request of user U leaves every client, product, sale, line item,
\* receivable and payable of any other user V as it was; a request that
\* names a row of V by its identifier ends in not-found; a sale asked for a
\* client of V is refused, and no line item is created on a product of V.
C11_RegistrosAlheiosIntocados ==
    [][LET u == last'.usuario
           alvo == Alvo(last'.op)
       IN  /\ \A v \in Usuarios \ {u} :
                  /\ Do(clientes', v) = Do(clientes, v)
                  /\ Do(produtos', v) = Do(produtos, v)
                  /\ Do(vendas', v) = Do(vendas, v)
                  /\ ItensDo(vendas', itens', v) = ItensDo(vendas, itens, v)
                  /\ Do(contas_receber', v) = Do(contas_receber, v)
                  /\ Do(contas_pagar', v) = Do(contas_pagar, v)
           /\ (/\ last'.pk \in DOMAIN alvo.tabela
               /\ alvo.tabela[last'.pk].usuario # u)
                  => last'.resultado = alvo.nao
           /\ (last'.op = "venda_create" /\ ClienteAlheio(u, last'.cliente_id))
                  => last'.resultado = "cliente_nao_encontrado"
           /\ \A k \in DOMAIN itens' \ DOMAIN itens :
                  /\ itens'[k].produto \in DOMAIN produtos
                  /\ produtos[itens'[k].produto].usuario = u
      ]_vars

\* user U asked to delete a client of user V, who has a sale with a line
\* item and a receivable, and was told the client does not exist
C11_Witness ==
    /\ last.op = "cliente_delete"
    /\ last.resultado = "cliente_nao_encontrado"
    /\ last.pk \in DOMAIN clientes
    /\ clientes[last.pk].usuario # last.usuario
    /\ \E w \in DOMAIN vendas :
           /\ vendas[w].cliente = last.pk
           /\ ItensDaVenda(itens, w) # {}
           /\ ContasDaVenda(w) # {}

\* ------------------------------------------------------- paid and not paid
\* the date field of a mark-paid request holds a date of the calendar
DataPedidaValida(texto) == texto # <<>> /\ DataValida(texto)

\* C12: a mark-paid request of the account's owner with a valid payment date
\* succeeds and leaves the account 'pago' with data_pagamento the date sent,
\* whatever its status was ('pendente', 'vencido' or 'pago' already), for a
\* receivable and for a payable.
C12_MarcadaComoPaga ==
    [][/\ (/\ last'.op = "conta_receber_marcar_pago"
           /\ last'.pk \in DOMAIN contas_receber
           /\ contas_receber[last'.pk].usuario = last'.usuario
           /\ DataPedidaValida(last'.data_pagamento))
              => /\ last'.resultado = "ok"
                 /\ contas_receber'[last'.pk].status = "pago"
                 /\ contas_receber'[last'.pk].data_pagamento = last'.data_pagamento
       /\ (/\ last'.op = "conta_pagar_marcar_pago"
           /\ last'.pk \in DOMAIN contas_pagar
           /\ contas_pagar[last'.pk].usuario = last'.usuario
           /\ DataPedidaValida(last'.data_pagamento))
              => /\ last'.resultado = "ok"
                 /\ contas_pagar'[last'.pk].status = "pago"
                 /\ contas_pagar'[last'.pk].data_pagamento = last'.data_pagamento
      ]_vars

\* a receivable that is overdue was marked paid on 2024-02-01, while a
\* payable of the same owner is paid with the other date
C12_Witness ==
    /\ last.op = "conta_receber_marcar_pago" /\ last.resultado = "ok"
    /\ last.data_pagamento = <<2024, 2, 1>>
    /\ contas_receber[last.pk].status = "pago"
    /\ contas_receber[last.pk].data_pagamento = <<2024, 2, 1>>
    /\ DataLT(contas_receber[last.pk].data_vencimento, hoje)
    /\ \E k \in DOMAIN contas_pagar :
           /\ contas_pagar[k].status = "pago"
           /\ contas_pagar[k].data_pagamento = DataInicial

\* an account went from another status to 'vencido' in this step
FicouVencida(antes, depois) ==
    {k \in DOMAIN antes \cap DOMAIN depois :
        antes[k].status # "vencido" /\ depois[k].status = "vencido"}

\* C13: a mark-unpaid request of the account's owner succeeds and leaves the
\* account 'pendente' with no data_pagamento, whatever its status was and
\* also when its due date is before today; an account becomes 'vencido' only
\* in a list or detail request, which call atualizar_status, and the first
\* such request that refreshes an overdue 'pendente' account makes it so.
C13_MarcadaComoNaoPaga ==
    [][/\ (/\ last'.op = "conta_receber_marcar_nao_pago"
           /\ last'.pk \in DOMAIN contas_receber
           /\ contas_receber[last'.pk].usuario = last'.usuario)
              => /\ last'.resultado = "ok"
                 /\ contas_receber'[last'.pk].status = "pendente"
                 /\ contas_receber'[last'.pk].data_pagamento = None
       /\ (/\ last'.op = "conta_pagar_marcar_nao_pago"
           /\ last'.pk \in DOMAIN contas_pagar
           /\ contas_pagar[last'.pk].usuario = last'.usuario)
              => /\ last'.resultado = "ok"
                 /\ contas_pagar'[last'.pk].status = "pendente"
                 /\ contas_pagar'[last'.pk].data_pagamento = None
       /\ FicouVencida(contas_receber, contas_receber') # {}
              => last'.op \in OpsReceber
       /\ FicouVencida(contas_pagar, contas_pagar') # {}
              => last'.op \in OpsPagar
       /\ \A k \in DOMAIN contas_receber :
              (/\ contas_receber[k].status = "pendente"
               /\ Ord(contas_receber[k].data_vencimento) < Ord(hoje)
               /\ contas_receber[k].usuario = last'.usuario
               /\ \/ last'.op = "contas_receber_list"
                  \/ last'.op = "conta_receber_detail" /\ last'.pk = k)
                  => contas_receber'[k].status = "vencido"
       /\ \A k \in DOMAIN contas_pagar :
              (/\ contas_pagar[k].status = "pendente"
               /\ Ord(contas_pagar[k].data_vencimento) < Ord(hoje)
               /\ contas_pagar[k].usuario = last'.usuario
               /\ \/ last'.op = "contas_pagar_list"
                  \/ last'.op = "conta_pagar_detail" /\ last'.pk = k)
                  => contas_pagar'[k].status = "vencido"
      ]_vars

\* a receivable due before today was marked unpaid and is 'pendente' with
\* no payment date, and so is a payable due before today
C13_Witness ==
    /\ last.op = "conta_receber_marcar_nao_pago" /\ last.resultado = "ok"
    /\ contas_receber[last.pk].status = "pendente"
    /\ contas_receber[last.pk].data_pagamento = None
    /\ Ord(contas_receber[last.pk].data_vencimento) < Ord(hoje)
    /\ \E k \in DOMAIN contas_pagar :
           /\ contas_pagar[k].status = "pendente"
           /\ Ord(contas_pagar[k].data_vencimento) < Ord(hoje)

\* ------------------------------------------------------------ referential
\* C14: every line item and every receivable refers to a sale that exists;
\* after a sale is deleted the sale is gone and no line item and no
\* receivable refers to it.
C14_SemOrfaos ==
    /\ \A k \in DOMAIN itens : itens[k].venda \in DOMAIN vendas
    /\ \A k \in DOMAIN contas_receber : contas_receber[k].venda \in DOMAIN vendas
    /\ (last.op = "venda_delete" /\ last.resultado = "ok")
           => /\ last.pk \notin DOMAIN vendas
              /\ ItensDaVenda(itens, last.pk) = {}
              /\ ContasDaVenda(last.pk) = {}

\* the only sale ever created, which had a line item and a receivable, was
\* deleted, and no line item and no receivable is left
C14_Witness ==
    /\ last.op = "venda_delete" /\ last.resultado = "ok"
    /\ seq.venda = 2 /\ last.pk = 1
    /\ seq.item > 1 /\ seq.receber > 1
    /\ itens = <<>> /\ contas_receber = <<>>

\* C15: deleting a product deletes no line item: the items that referred to
\* it stay, with no product and the same sale, quantity, unit price and
\* subtotal; every other item and every sale, its total included, is as it
\* was.
C15_ItensSobrevivem ==
    [][(last'.op = "produto_delete" /\ last'.resultado = "ok")
          => /\ last'.pk \notin DOMAIN produtos'
             /\ DOMAIN itens' = DOMAIN itens
             /\ \A k \in DOMAIN itens :
                    IF itens[k].produto = last'.pk
                    THEN /\ itens'[k].produto = Nulo
                         /\ itens'[k].venda = itens[k].venda
                         /\ itens'[k].quantidade = itens[k].quantidade
                         /\ itens'[k].preco_unitario = itens[k].preco_unitario
                         /\ itens'[k].subtotal = itens[k].subtotal
                    ELSE itens'[k] = itens[k]
             /\ vendas' = vendas
      ]_vars

\* a product that a sale's line item referred to was deleted: the item has
\* no product and the sale's total is still the item's subtotal
C15_Witness ==
    /\ last.op = "produto_delete" /\ last.resultado = "ok"
    /\ \E k \in DOMAIN itens :
           /\ itens[k].produto = Nulo
           /\ itens[k].subtotal > 0
           /\ vendas[itens[k].venda].valor_total = itens[k].subtotal

\* ------------------------------------------------------------- idempotence
\* the days the clock reaches
Dias == {DiaN(n) : n \in 0..MaxDias}

\* C16: on an account that is not paid, for one and the same today, a second
\* call of atualizar_status leaves the record as the first call left it; so
\* a detail request that follows a detail request of the same account on the
\* same day, or a list request that follows a list request of the same user,
\* changes no account.
C16_AtualizarStatusIdempotente ==
    /\ [](\A h \in Dias :
             /\ \A k \in DOMAIN contas_receber :
                    contas_receber[k].status # "pago" =>
                        LET uma == AccountsReceivable_atualizar_status(contas_receber[k], h).conta
                        IN  AccountsReceivable_atualizar_status(uma, h).conta = uma
             /\ \A k \in DOMAIN contas_pagar :
                    contas_pagar[k].status # "pago" =>
                        LET uma == AccountsPayable_atualizar_status(contas_pagar[k], h).conta
                        IN  AccountsPayable_atualizar_status(uma, h).conta = uma)
    /\ [][(/\ last.op \in OpsReceber \cup OpsPagar
           /\ last'.op = last.op /\ last'.usuario = last.usuario /\ last'.pk = last.pk
           /\ last.resultado = "ok" /\ hoje' = hoje)
              => /\ contas_receber' = contas_receber
                 /\ contas_pagar' = contas_pagar
                 /\ last'.resultado = "ok"
      ]_vars

\* a detail request has just made an overdue receivable 'vencido', which a
\* second call leaves 'vencido', while an overdue payable is still 'pendente'
C16_Witness ==
    /\ last.op = "conta_receber_detail" /\ last.resultado = "ok"
    /\ last.pk \in last.salvos
    /\ contas_receber[last.pk].status = "vencido"
    /\ AccountsReceivable_atualizar_status(contas_receber[last.pk], hoje).conta
           = contas_receber[last.pk]
    /\ \E k \in DOMAIN contas_pagar :
           /\ contas_pagar[k].status = "pendente"
           /\ AccountsPayable_atualizar_status(contas_pagar[k], hoje).conta.status = "vencido"

\* ------------------------------------------------------------- concurrency
\* every request has written its total
Terminados == \A r \in Pedidos : r \in DOMAIN em_curso /\ em_curso[r].pc = "fim"

\* C17: requests that insert line items into one sale run 'persist item,
\* read all items, sum, write total' with nothing that keeps the steps of
\* one apart from the steps of another: the total a request writes is the
\* sum of the items it saw when it read, whatever was persisted since; an
\* item, once persisted, is not touched by another request, and the total
\* changes only when a request writes.  So the sale can end with a total
\* that is not the sum of its items: the state of the witness.
C17_TotalDoUltimoQueEscreveu ==
    /\ [](last.op = "escreve" =>
              /\ vendas[last.venda].valor_total
                     = SomaSubtotais(itens, em_curso[last.pk].vistos)
              /\ em_curso[last.pk].item \in em_curso[last.pk].vistos)
    /\ [][/\ \A k \in DOMAIN itens : k \in DOMAIN itens' /\ itens'[k] = itens[k]
          /\ (vendas # <<>> /\ vendas' # vendas) => last'.op = "escreve"
      ]_vars

\* both requests are over and the total of the sale is not the sum of the
\* subtotals of its three items
C17_Witness ==
    /\ Terminados
    /\ \E v \in DOMAIN vendas :
           /\ Cardinality(ItensDaVenda(itens, v)) = MaxPedidos + 1
           /\ vendas[v].valor_total # SomaSubtotais(itens, ItensDaVenda(itens, v))

\* --------------------------------------------------------------- line items
\* C18: every stored line item has a quantity above zero, a unit price of
\* zero or more, and a subtotal that is its quantity times its unit price.
\* A price sent with a third decimal is stored rounded to cents, while the
\* subtotal stored is the rounding of quantity times the price as sent.
C18_SubtotalEQuantidadeVezesPreco ==
    \A k \in DOMAIN itens :
        /\ itens[k].quantidade > 0
        /\ itens[k].preco_unitario >= 0
        /\ itens[k].subtotal = itens[k].quantidade * itens[k].preco_unitario

\* ------------------------------------------------------- installment count
\* the installment field is empty, or holds a whole number below 1
ParcelasSemValor(parcelas) ==
    \/ parcelas = ""
    \/ ~int_(parcelas).erro /\ int_(parcelas).valor <= 0

\* the rest of the form is in order: a client of the user, a due date of the
\* calendar, at least one row
PedidoEmOrdem ==
    /\ last.op = "venda_create"
    /\ ~int_(last.cliente_id).erro /\ ~ClienteAlheio(last.usuario, last.cliente_id)
    /\ last.data_vencimento # <<>> /\ DataValida(last.data_vencimento)
    /\ last.tuplas # <<>>

\* C19: a sale form whose installment field is empty, zero or negative is
\* accepted as a sale of one installment: the sale has exactly one
\* receivable, due on the anchor date, for the whole total of the sale.
C19_ParcelasSemValorContamUma ==
    (PedidoEmOrdem /\ ParcelasSemValor(last.parcelas))
        => /\ last.resultado = "ok"
           /\ Cardinality(ContasDaVenda(last.venda)) = 1
           /\ \A k \in ContasDaVenda(last.venda) :
                  /\ contas_receber[k].data_vencimento = last.data_vencimento
                  /\ contas_receber[k].valor = vendas[last.venda].valor_total
                  /\ contas_receber[k].status = "pendente"

\* a sale of 10.00 asked for with -1 installments has one receivable of
\* 10.00 due on the anchor date
C19_Witness ==
    /\ VendaCriada
    /\ last.parcelas = "-1"
    /\ vendas[last.venda].valor_total = 1000
    /\ \E k \in ContasDaVenda(last.venda) :
           /\ ContasDaVenda(last.venda) = {k}
           /\ contas_receber[k].valor = 1000
           /\ contas_receber[k].data_vencimento = DataVenda

\* ------------------------------------------------- the life of a receivable
\* the fields of a receivable that are given to it when it is created
Fixos(conta) ==
    <<conta.valor, conta.data_vencimento, conta.venda, conta.cliente, conta.usuario>>

\* the requests that may change status and data_pagamento of a receivable
OpsStatusReceber ==
    OpsReceber \cup {"conta_receber_marcar_pago", "conta_receber_marcar_nao_pago"}

\* C20: no request changes the amount, due date, sale, client or owner of a
\* receivable that exists; its status and data_pagamento change only in the
\* list and detail requests (atualizar_status), in mark-paid and in
\* mark-unpaid; it disappears only with its sale, when the sale or the
\* sale's client is deleted; and its identifier is never given to another.
C20_ContaReceberSoMudaDeStatus ==
    [][/\ \A k \in DOMAIN contas_receber \cap DOMAIN contas_receber' :
              /\ Fixos(contas_receber'[k]) = Fixos(contas_receber[k])
              /\ contas_receber'[k] # contas_receber[k]
                     => /\ last'.op \in OpsStatusReceber
                        /\ contas_receber[k].usuario = last'.usuario
       /\ \A k \in DOMAIN contas_receber \ DOMAIN contas_receber' :
              /\ last'.op \in {"venda_delete", "cliente_delete"}
              /\ contas_receber[k].venda \notin DOMAIN vendas'
       /\ \A k \in DOMAIN contas_receber' \ DOMAIN contas_receber :
              /\ k >= seq.receber
              /\ last'.op = "venda_create"
      ]_vars

\* a receivable was marked paid: it has a payment date, and still the amount
\* of its sale, the sale's due date, client and owner
C20_Witness ==
    /\ last.op = "conta_receber_marcar_pago" /\ last.resultado = "ok"
    /\ contas_receber[last.pk].status = "pago"
    /\ contas_receber[last.pk].data_pagamento = DataInicial
    /\ contas_receber[last.pk].data_vencimento = DataVenda
    /\ contas_receber[last.pk].valor = vendas[contas_receber[last.pk].venda].valor_total
    /\ contas_receber[last.pk].cliente = vendas[contas_receber[last.pk].venda].cliente
    /\ contas_receber[last.pk].usuario = last.usuario

\* ------------------------------------------------------- the price snapshot
\* C21: a product-edit request, whatever it does to the product, leaves every
\* line item (its unit price and subtotal included), every sale (its total
\* included) and every receivable (its amount included) as they were.
C21_EdicaoDoProdutoNaoAlteraVendas ==
    [][(last'.op = "produto_edit")
          => /\ DOMAIN itens' = DOMAIN itens
             /\ \A k \in DOMAIN itens :
                    /\ itens'[k].preco_unitario = itens[k].preco_unitario
                    /\ itens'[k].subtotal = itens[k].subtotal
                    /\ itens'[k] = itens[k]
             /\ DOMAIN vendas' = DOMAIN vendas
             /\ \A v \in DOMAIN vendas :
                    vendas'[v].valor_total = vendas[v].valor_total
             /\ DOMAIN contas_receber' = DOMAIN contas_receber
             /\ \A k \in DOMAIN contas_receber :
                    contas_receber'[k].valor = contas_receber[k].valor
      ]_vars

\* a product sold at 5.00 was edited to cost 10.00: its line item still has
\* the unit price 5.00, and the sale and its receivable the amount 5.00
C21_Witness ==
    /\ last.op = "produto_edit" /\ last.resultado = "ok"
    /\ produtos[last.pk].preco = 1000
    /\ \E k \in DOMAIN itens :
           /\ itens[k].produto = last.pk
           /\ itens[k].preco_unitario = 500
           /\ itens[k].subtotal = 500
           /\ vendas[itens[k].venda].valor_total = 500
           /\ \E c \in ContasDaVenda(itens[k].venda) : contas_receber[c].valor = 500

\* ------------------------------------------------ the refresh and the filter
\* the account is not paid and its status is not what its due date and the
\* day h make it
Desatualizada(conta, h) ==
    /\ conta.status # "pago"
    /\ ~(conta.status = "vencido" <=> Ord(conta.data_vencimento) < Ord(h))

\* C22: in the state a list request of user U leaves on day hoje, whichever
\* status filter it carried, none of U's accounts of that kind that is not
\* 'pago' has a status other than the one its due date gives ('vencido'
\* exactly when the due date is before hoje); in the state a detail request
\* leaves, the same holds of the account it showed.
C22_ListaAtualizaApesarDoFiltro ==
    /\ last.op = "contas_receber_list" =>
           \A k \in DOMAIN contas_receber :
               contas_receber[k].usuario = last.usuario
                   => ~Desatualizada(contas_receber[k], hoje)
    /\ last.op = "contas_pagar_list" =>
           \A k \in DOMAIN contas_pagar :
               contas_pagar[k].usuario = last.usuario
                   => ~Desatualizada(contas_pagar[k], hoje)
    /\ (last.op = "conta_receber_detail" /\ last.resultado = "ok")
           => ~Desatualizada(contas_receber[last.pk], hoje)
    /\ (last.op = "conta_pagar_detail" /\ last.resultado = "ok")
           => ~Desatualizada(contas_pagar[last.pk], hoje)

\* a list request that asked for the paid receivables made an overdue one
\* 'vencido', and left 'pendente' one that is not yet due
C22_Witness ==
    /\ last.op = "contas_receber_list" /\ last.status = "pago"
    /\ \E k \in last.salvos :
           /\ contas_receber[k].status = "vencido"
           /\ Ord(contas_receber[k].data_vencimento) < Ord(hoje)
    /\ \E k \in last.salvos :
           /\ contas_receber[k].status = "pendente"
           /\ Ord(contas_receber[k].data_vencimento) >= Ord(hoje)

\* ------------------------------------------------- sale requests that fail
\* C23: a venda_create that does not end in success leaves the Sales, the
\* SaleItems and the AccountsReceivables as they were before it; so no
\* request fails after it created a receivable.
C23_FalhaNaoDeixaRegistros ==
    [][(last'.op = "venda_create" /\ last'.resultado # "ok")
          => /\ vendas' = vendas
             /\ itens' = itens
             /\ contas_receber' = contas_receber]_vars

\* the request reaches the creation of the sale: it names a client of the
\* user, a due date that exists and an installment count that is a number
\* or empty
ChegaAVenda(pedido) ==
    /\ pedido.op = "venda_create"
    /\ pedido.cliente_id # ""
    /\ ~int_(pedido.cliente_id).erro
    /\ int_(pedido.cliente_id).valor \in DOMAIN clientes
    /\ clientes[int_(pedido.cliente_id).valor].usuario = pedido.usuario
    /\ DataPedidaValida(pedido.data_vencimento)
    /\ (pedido.parcelas = "" \/ ~int_(pedido.parcelas).erro)

\* C24: a venda_create that reaches the creation of the sale with an empty
\* list of product rows fails; the sale it created is deleted again (the
\* sales are as before, and the identifier the shell took is spent), and
\* the line items and the receivables are as before.
C24_SemLinhasApagaAVenda ==
    [][(ChegaAVenda(last') /\ last'.produtos_ids = <<>>)
          => /\ last'.resultado = "sem_produtos"
             /\ seq'.venda = seq.venda + 1
             /\ seq.venda \notin DOMAIN vendas'
             /\ vendas' = vendas
             /\ itens' = itens /\ seq'.item = seq.item
             /\ contas_receber' = contas_receber /\ seq'.receber = seq.receber
      ]_vars

\* a request with no product rows failed after an earlier sale was stored:
\* the shell's identifier is spent and only the earlier sale is there
C24_Witness ==
    /\ ChegaAVenda(last) /\ last.produtos_ids = <<>>
    /\ last.resultado = "sem_produtos"
    /\ seq.venda = 3
    /\ DOMAIN vendas = {1}
    /\ ItensDaVenda(itens, 1) # {} /\ ContasDaVenda(1) # {}

\* --------------------------------------------------- paid and payment date
\* C25: in every state the views reach, a receivable or a payable has the
\* status 'pago' if and only if it has a payment date.
C25_PagoSeESomenteSeTemData ==
    /\ \A k \in DOMAIN contas_receber :
           contas_receber[k].status = "pago" <=> contas_receber[k].data_pagamento # None
    /\ \A k \in DOMAIN contas_pagar :
           contas_pagar[k].status = "pago" <=> contas_pagar[k].data_pagamento # None

\* a receivable was marked unpaid and has no payment date, while another
\* one and a payable are paid and have theirs, and the day is past the first
\* due date
C25_Witness ==
    /\ last.op = "conta_receber_marcar_nao_pago" /\ last.resultado = "ok"
    /\ contas_receber[last.pk].status = "pendente"
    /\ contas_receber[last.pk].data_pagamento = None
    /\ Ord(contas_receber[last.pk].data_vencimento) < Ord(hoje)
    /\ \E k \in DOMAIN contas_receber :
           /\ contas_receber[k].status = "pago"
           /\ contas_receber[k].data_pagamento # None
    /\ \E k \in DOMAIN contas_pagar :
           /\ contas_pagar[k].status = "pago"
           /\ contas_pagar[k].data_pagamento # None

\* ------------------------------------------- mark-paid against a refresh
\* C26: whatever the order of the statements of a refresh and of a mark-paid
\* request on the same receivable, once the mark-paid request has saved, the
\* receivable has status 'pago' and the payment date of the request (no
\* mark-unpaid request is made).
C26_PagoPermanece ==
    \A r \in DOMAIN em_curso :
        (em_curso[r].op = "conta_receber_marcar_pago" /\ em_curso[r].pc = "fim")
            => /\ contas_receber[em_curso[r].pk].status = "pago"
               /\ contas_receber[em_curso[r].pk].data_pagamento = DataInicial

\* ------------------------------------------------------------------ stock
\* the adjustment asks for a quantity <= 0, or for the removal of more units
\* than the product has
AjusteRecusavel(pedido) ==
    /\ pedido.op = "produto_ajustar_estoque"
    /\ pedido.pk \in DOMAIN produtos
    /\ produtos[pedido.pk].usuario = pedido.usuario
    /\ ~int_(pedido.quantidade).erro
    /\ \/ int_(pedido.quantidade).valor <= 0
       \/ /\ pedido.operacao = "remover"
          /\ int_(pedido.quantidade).valor > produtos[pedido.pk].estoque

\* C27: the stock of every product is >= 0 in every state that product
\* create, product edit and stock adjustment requests reach; and an
\* adjustment by a quantity <= 0, or a removal of more units than the product
\* has, is refused and leaves the products as they were.
C27_EstoqueNuncaNegativo ==
    /\ [](\A p \in DOMAIN produtos : produtos[p].estoque >= 0)
    /\ [][AjusteRecusavel(last')
            => /\ last'.resultado \in {"quantidade_nao_positiva", "estoque_insuficiente"}
               /\ produtos' = produtos]_vars

\* the removal of two units of a product that has one was refused, while
\* another product has no unit
C27_Witness ==
    /\ AjusteRecusavel(last)
    /\ last.operacao = "remover" /\ last.quantidade = "2"
    /\ last.resultado = "estoque_insuficiente"
    /\ produtos[last.pk].estoque = 1
    /\ \E p \in DOMAIN produtos : produtos[p].estoque = 0

\* C28: a venda_create request leaves every product as it was, its stock
\* included; and the sale it creates has an item for each valid row of the
\* form, with the quantity asked, whatever the stock of the product.
C28_VendaNaoBaixaEstoque ==
    /\ [][last'.op = "venda_create"
            => /\ DOMAIN produtos' = DOMAIN produtos
               /\ \A p \in DOMAIN produtos : produtos'[p].estoque = produtos[p].estoque
               /\ produtos' = produtos]_vars
    /\ [](VendaCriada
            => /\ Cardinality(ItensDaVenda(itens, last.venda)) = Len(Devidos)
               /\ \A j \in 1..Len(Devidos) :
                      \E k \in ItensDaVenda(itens, last.venda) :
                          /\ itens[k].produto = Devidos[j][1]
                          /\ itens[k].quantidade = Devidos[j][2])

\* two units were sold of a product that has no unit in stock: the item is
\* there and the stock is still 0
C28_Witness ==
    /\ VendaCriada
    /\ \E k \in ItensDaVenda(itens, last.venda) :
           /\ itens[k].quantidade = 2
           /\ itens[k].produto \in DOMAIN produtos
           /\ produtos[itens[k].produto].estoque = 0

\* ------------------------------------------------- the status of a new account
\* C29: every receivable a venda_create request creates is 'pendente' with no
\* payment date, whether or not its due date is before today; and a
\* receivable becomes 'vencido' only in a list or detail request.
C29_ContaNovaPendente ==
    /\ [][last'.op = "venda_create"
            => \A k \in DOMAIN contas_receber' \ DOMAIN contas_receber :
                   /\ contas_receber'[k].status = "pendente"
                   /\ contas_receber'[k].data_pagamento = None]_vars
    /\ [][\A k \in DOMAIN contas_receber' :
              (/\ contas_receber'[k].status = "vencido"
               /\ k \in DOMAIN contas_receber => contas_receber[k].status # "vencido")
                  => /\ k \in DOMAIN contas_receber
                     /\ last'.op \in OpsReceber
                     /\ Ord(contas_receber[k].data_vencimento) < Ord(hoje)]_vars

\* a sale was created the day after its due date: its first receivable is
\* 'pendente' although it is due before today
C29_Witness ==
    /\ VendaCriada
    /\ \E k \in ContasDaVenda(last.venda) :
           /\ Ord(contas_receber[k].data_vencimento) < Ord(hoje)
           /\ contas_receber[k].status = "pendente"
           /\ contas_receber[k].data_pagamento = None

\* ------------------------------------------------------- deleting a client
\* the rows of a table that refer to one of the sales vs
DasVendas(tabela, vs) == {k \in DOMAIN tabela : tabela[k].venda \in vs}

\* C30: a successful cliente_delete removes the client, every sale of the
\* client, every line item of those sales and every receivable of those
\* sales or of the client, paid ones included; every other client, sale,
\* item and receivable, and every product and payable, is as it was.
C30_ApagarClienteApagaVendas ==
    [][(last'.op = "cliente_delete" /\ last'.resultado = "ok")
          => LET c == last'.pk
                 vs == {v \in DOMAIN vendas : vendas[v].cliente = c}
                 crs == DasVendas(contas_receber, vs)
                        \cup {k \in DOMAIN contas_receber : contas_receber[k].cliente = c}
             IN  /\ c \in DOMAIN clientes
                 /\ clientes' = Sem(clientes, {c})
                 /\ vendas' = Sem(vendas, vs)
                 /\ itens' = Sem(itens, DasVendas(itens, vs))
                 /\ contas_receber' = Sem(contas_receber, crs)
                 /\ \A k \in DOMAIN contas_receber :
                        (contas_receber[k].status = "pago" /\ k \in crs)
                            => k \notin DOMAIN contas_receber'
                 /\ produtos' = produtos
                 /\ contas_pagar' = contas_pagar
      ]_vars

\* the client of the only sale ever created was deleted: the sale, its item
\* and its receivable are gone, and the products are all there
C30_Witness ==
    /\ last.op = "cliente_delete" /\ last.resultado = "ok"
    /\ last.pk \notin DOMAIN clientes
    /\ seq.venda = 2 /\ seq.item = 2 /\ seq.receber = 2
    /\ vendas = <<>> /\ itens = <<>> /\ contas_receber = <<>>
    /\ DOMAIN produtos = DOMAIN ProdutosIniciais

====
